---- MODULE Spec2Model ----
(***************************************************************************)
(* Model of the autonomous grid monitor agent (backend/agent.py):         *)
(* AgentState (thresholds, bounded history, bounded feedback log, JSON    *)
(* persistence) and GridMonitorAgent (monitor, predict, recommend, learn, *)
(* heartbeat, decision audit log).                                        *)
(*                                                                         *)
(* Units.  Loadings and thresholds are whole percent.  Confidences are    *)
(* thousandths (1000 stands for 1.0), rounded down.  MVA estimates are    *)
(* tenths of an MVA.  Timestamps are readings of a clock that advances    *)
(* by one with every call that writes something.  Binary floating-point   *)
(* rounding is not modelled.                                               *)
(***************************************************************************)
EXTENDS Integers, Sequences, FiniteSets, TLC

(***************************************************************************)
(* Bounds of the exploration                                               *)
(***************************************************************************)
\* calls (other than heartbeat and load) in a run of Spec
MaxClock == 3
\* freely chosen calls at the start of a run of SpecSoak
MaxFree == 3
\* learn calls in a run of SpecSoak
MaxLearnCalls == 102
\* monitor calls in a run of SpecSoak
MaxMonitorCalls == 12
\* calls in a run of SpecMonitor
MaxMonitorDepth == 6
\* steps of a forecast in SpecPredict
MaxForecast == 7
\* issues handed to recommend in SpecRecommend
MaxIssues == 3

\* calls in a run of SpecOverload
MaxOverloadClock == 3

\* calls in a run of SpecSave
MaxSaveClock == 3

\* learn and save calls in a run of SpecLoad
MaxLoadClock == 2
MaxFaultyClock == 4
MaxLoggerClock == 3
MaxSaveRaceLearns == 1

(***************************************************************************)
(* Arithmetic helpers                                                      *)
(***************************************************************************)
Min(a, b) == IF a <= b THEN a ELSE b

Max(a, b) == IF a >= b THEN a ELSE b

Abs(a) == IF a >= 0 THEN a ELSE -a

RECURSIVE SumSeq(_)
SumSeq(s) == IF s = <<>> THEN 0 ELSE Head(s) + SumSeq(Tail(s))

\* s[-n:] of Python, for n >= 1
LastN(s, n) == IF Len(s) <= n THEN s ELSE SubSeq(s, Len(s) - n + 1, Len(s))

\* s[:n] of Python, for any integer n
FirstN(s, n) ==
    IF n >= 0 THEN SubSeq(s, 1, Min(n, Len(s)))
    ELSE SubSeq(s, 1, Max(0, Len(s) + n))

\* d.get(key, default) on a record used as a dict
Get(d, key, default) == IF key \in DOMAIN d THEN d[key] ELSE default

\* 1000 * sqrt(n / d) for 0 <= n < d, rounded down (the ratio is first cut to
\* thousandths, which keeps every product within TLC's integers)
MilliSqrt(n, d) ==
    LET x == ((1000 * n) \div d) * 1000
    IN  CHOOSE r \in 0..1000 : r * r <= x /\ (r + 1) * (r + 1) > x

(***************************************************************************)
(* AgentState                                                              *)
(***************************************************************************)
DefaultThresholds ==
    [ high_loading |-> 90,
      critical_loading |-> 100,
      trend_slope_threshold |-> 5,
      rating_decline_threshold |-> 10,
      historical_window |-> 10 ]

DefaultVersion == "1.0.0"

VARIABLES
    history,         \* AgentState.history
    action_history,  \* AgentState.action_history
    thresholds,      \* AgentState.thresholds
    version,         \* AgentState.version
    last_updated,    \* AgentState.last_updated
    decision_log,    \* the lines written to the decision log file
    files,           \* the state file and its temp file
    clock,           \* datetime.utcnow()
    lastOp,          \* the operation called last
    lastArgs,        \* its arguments
    ret,             \* what it returned
    nMonitor,        \* monitor calls so far
    nLearn,          \* learn calls so far
    saving,          \* the save call in progress: the text it writes and how far it got
    observed,        \* what a concurrent reader of the state file last read
    inflight,        \* per thread: the call it is in and the values it holds
    logger           \* the process-wide decision logger and the agent's own path

vars == << history, action_history, thresholds, version, last_updated,
           decision_log, files, clock, lastOp, lastArgs, ret, nMonitor, nLearn,
           saving, observed, inflight, logger >>

agentState == << history, action_history, thresholds, version, last_updated >>

(***************************************************************************)
(* GridMonitorAgent._log_decision                                          *)
(***************************************************************************)
log_entry(ts, action, details, hist, acts, thr) ==
    [ timestamp |-> ts,
      action |-> action,
      details |-> details,
      state_snapshot |-> [ history_size |-> Len(hist),
                           action_history_size |-> Len(acts),
                           thresholds |-> thr ] ]

(***************************************************************************)
(* Request threads and the decision logger                                 *)
(***************************************************************************)
\* the threads of the web server that call into the one agent
Threads == {"t1", "t2"}

\* a thread that is in no call
Idle == [ op |-> "none", pc |-> "idle", done |-> << >> ]

\* config.get('decision_log_path', ...)
DefaultLogPath == "backend/data/agent_decisions.log"

(***************************************************************************)
(* GridMonitorAgent.monitor_grid_state and its detectors                   *)
(***************************************************************************)
line_name(line) == line.name

line_overload(line) == Get(line, "flow_mva", 0) - Get(line, "rating_mva", 0)

line_abs_margin(line) == Abs(Get(line, "margin_mva", 0))

line_flow(line) == Get(line, "flow_mva", 0)

avg_loading_of(entry) == Get(Get(entry, "summary", [none |-> 0]), "avg_loading", 0)

generate_actions_for_overload(lines, critical) ==
    IF critical
    THEN << [ action |-> "Immediate load shedding or line switching",
              estimated_mva_change |-> (-SumSeq([i \in 1..Len(lines) |-> line_overload(lines[i])])) * 3,
              estimated_pct_change |-> -20,
              reasoning |-> "Critical overload requires immediate action",
              confidence |-> 950 ],
            [ action |-> "Emergency generation redispatch",
              estimated_mva_change |-> (-SumSeq([i \in 1..Len(lines) |-> line_abs_margin(lines[i])])) * 5,
              estimated_pct_change |-> -15,
              reasoning |-> "Redistribute power flow",
              confidence |-> 850 ] >>
    ELSE << [ action |-> "Prepare contingency plans and increase monitoring",
              estimated_mva_change |-> 0,
              estimated_pct_change |-> 0,
              reasoning |-> "High loading indicates potential for overload",
              confidence |-> 900 ],
            [ action |-> "Consider preemptive generation adjustment",
              estimated_mva_change |-> -SumSeq([i \in 1..Len(lines) |-> line_flow(lines[i])]),
              estimated_pct_change |-> -10,
              reasoning |-> "Small adjustments now can prevent critical issues",
              confidence |-> 750 ] >>

is_critical_line(line, thr) ==
    Get(line, "loading_pct", 0) >= Get(thr, "critical_loading", 100)

\* the high band taken from the threshold the agent was built with
is_high_stress_line_initial_threshold(line, thr) ==
    /\ DefaultThresholds.high_loading <= Get(line, "loading_pct", 0)
    /\ Get(line, "loading_pct", 0) < Get(thr, "critical_loading", 100)

\* the high band closed at the critical threshold
is_high_stress_line_inclusive(line, thr) ==
    /\ Get(thr, "high_loading", 90) <= Get(line, "loading_pct", 0)
    /\ Get(line, "loading_pct", 0) <= Get(thr, "critical_loading", 100)

is_high_stress_line(line, thr) ==
    /\ Get(thr, "high_loading", 90) <= Get(line, "loading_pct", 0)
    /\ Get(line, "loading_pct", 0) < Get(thr, "critical_loading", 100)

\* one Issue for every line of the critical bucket instead of one for the bucket
critical_issue_per_line(lines, thr, ts) ==
    LET critical_lines == SelectSeq(lines, LAMBDA l : is_critical_line(l, thr))
    IN  [ i \in 1..Len(critical_lines) |->
            [ id |-> << "critical_loading", ts >>,
              severity |-> "critical",
              reason |-> "line(s) at or above critical loading",
              affected_lines |-> << line_name(critical_lines[i]) >>,
              timestamp |-> ts,
              confidence |-> 1000,
              recommended_actions |->
                  generate_actions_for_overload(<< critical_lines[i] >>, TRUE) ] ]

critical_issue(lines, thr, ts) ==
    LET critical_lines == SelectSeq(lines, LAMBDA l : is_critical_line(l, thr))
    IN  IF critical_lines # <<>>
        THEN << [ id |-> << "critical_loading", ts >>,
                  severity |-> "critical",
                  reason |-> "line(s) at or above critical loading",
                  affected_lines |-> [i \in 1..Len(critical_lines) |-> line_name(critical_lines[i])],
                  timestamp |-> ts,
                  confidence |-> 1000,
                  recommended_actions |->
                      generate_actions_for_overload(critical_lines, TRUE) ] >>
        ELSE << >>

high_issue(lines, thr, ts) ==
    LET high_stress_lines == SelectSeq(lines, LAMBDA l : is_high_stress_line(l, thr))
    IN  IF high_stress_lines # <<>>
        THEN << [ id |-> << "high_loading", ts >>,
                  severity |-> "high",
                  reason |-> "line(s) between high and critical loading",
                  affected_lines |-> [i \in 1..Len(high_stress_lines) |-> line_name(high_stress_lines[i])],
                  timestamp |-> ts,
                  confidence |-> 1000,
                  recommended_actions |->
                      generate_actions_for_overload(high_stress_lines, FALSE) ] >>
        ELSE << >>

\* the numerator without the product of the two sums
slope_num_uncentred(y) ==
    LET n == Len(y)
    IN  n * SumSeq([i \in 1..n |-> (i - 1) * y[i]])

\* numerator and denominator of the least-squares slope of y against 0..Len(y)-1
slope_num(y) ==
    LET n == Len(y)
    IN  n * SumSeq([i \in 1..n |-> (i - 1) * y[i]])
          - SumSeq([i \in 1..n |-> i - 1]) * SumSeq(y)

slope_den(y) ==
    LET n == Len(y)
        sx == SumSeq([i \in 1..n |-> i - 1])
    IN  n * SumSeq([i \in 1..n |-> (i - 1) * (i - 1)]) - sx * sx

\* the confidence without min(1.0, ...)
trend_confidence_uncapped(num, den, threshold) ==
    (1000 * num) \div (threshold * 2 * den)

trend_confidence(num, den, threshold) ==
    Min(1000, (1000 * num) \div (threshold * 2 * den))

\* a trend detector that fits a line through two points already
detect_loading_trend_from_two(hist, thr, ts) ==
    IF Len(hist) < 2 THEN << >>
    ELSE
    LET recent_loadings == [i \in 1..Len(LastN(hist, 5)) |-> avg_loading_of(LastN(hist, 5)[i])]
        num == slope_num(recent_loadings)
        den == slope_den(recent_loadings)
        threshold == Get(thr, "trend_slope_threshold", 5)
        confidence == trend_confidence(num, den, threshold)
    IN  IF num > threshold * den
        THEN << [ id |-> << "loading_trend", ts >>,
                  severity |-> "medium",
                  reason |-> "Average loading increasing",
                  affected_lines |-> << "system-wide" >>,
                  timestamp |-> ts,
                  confidence |-> confidence,
                  recommended_actions |-> << >> ] >>
        ELSE << >>

detect_loading_trend(hist, thr, ts) ==
    IF Len(hist) < 3 THEN << >>
    ELSE
    LET recent_loadings == [i \in 1..Len(LastN(hist, 5)) |-> avg_loading_of(LastN(hist, 5)[i])]
        num == slope_num(recent_loadings)
        den == slope_den(recent_loadings)
        threshold == Get(thr, "trend_slope_threshold", 5)
        confidence == trend_confidence(num, den, threshold)
    IN  IF Len(recent_loadings) < 3 THEN << >>
        ELSE IF num > threshold * den
        THEN << [ id |-> << "loading_trend", ts >>,
                  severity |-> "medium",
                  reason |-> "Average loading increasing",
                  affected_lines |-> << "system-wide" >>,
                  timestamp |-> ts,
                  confidence |-> confidence,
                  recommended_actions |->
                    << [ action |-> "Review load forecast and adjust generation schedule",
                         estimated_mva_change |-> (-(100 * num)) \div den,
                         estimated_pct_change |-> (-num) \div den,
                         reasoning |-> "Proactive adjustment can prevent future overloads",
                         confidence |-> confidence ] >> ] >>
        ELSE << >>

decline_confidence(change, threshold) ==
    Min(1000, (1000 * change) \div (threshold * 2))

\* a rating-decline detector that takes a fall for a rise
detect_rating_decline_either_direction(hist, current_data, thr, ts) ==
    IF Len(hist) < 2 THEN << >>
    ELSE
    LET prev_avg == avg_loading_of(hist[Len(hist) - 1])
        curr_avg == avg_loading_of(current_data)
        decline_threshold == Get(thr, "rating_decline_threshold", 10)
        confidence == decline_confidence(Abs(curr_avg - prev_avg), decline_threshold)
    IN  IF Abs(curr_avg - prev_avg) > decline_threshold
        THEN << [ id |-> << "rating_decline", ts >>,
                  severity |-> "medium",
                  reason |-> "Average loading changed",
                  affected_lines |-> << "system-wide" >>,
                  timestamp |-> ts,
                  confidence |-> confidence,
                  recommended_actions |-> << >> ] >>
        ELSE << >>

detect_rating_decline(hist, current_data, thr, ts) ==
    IF Len(hist) < 2 THEN << >>
    ELSE
    LET prev_avg == avg_loading_of(hist[Len(hist) - 1])
        curr_avg == avg_loading_of(current_data)
        decline_threshold == Get(thr, "rating_decline_threshold", 10)
        confidence == decline_confidence(curr_avg - prev_avg, decline_threshold)
    IN  IF curr_avg - prev_avg > decline_threshold
        THEN << [ id |-> << "rating_decline", ts >>,
                  severity |-> "medium",
                  reason |-> "Average loading increased (likely weather-driven rating decline)",
                  affected_lines |-> << "system-wide" >>,
                  timestamp |-> ts,
                  confidence |-> confidence,
                  recommended_actions |->
                    << [ action |-> "Monitor weather forecast and prepare for further rating reductions",
                         estimated_mva_change |-> 0,
                         estimated_pct_change |-> 0,
                         reasoning |-> "Weather conditions may continue to degrade line ratings",
                         confidence |-> confidence ] >> ] >>
        ELSE << >>

\* min(1.0, z / 4.0) where z * z = dev2 / var
anomaly_confidence(dev2, var) ==
    IF dev2 >= 16 * var THEN 1000 ELSE MilliSqrt(dev2, 16 * var)

\* an anomaly detector whose baseline takes in the current entry
detect_anomalies_baseline_with_current(hist, current_data, ts) ==
    IF Len(hist) < 5 THEN << >>
    ELSE
    LET historical_loadings == [i \in 1..Len(hist) |-> avg_loading_of(hist[i])]
        m == Len(historical_loadings)
        total == SumSeq(historical_loadings)
        var == m * SumSeq([i \in 1..m |-> historical_loadings[i] * historical_loadings[i]])
                 - total * total
        current_loading == avg_loading_of(current_data)
        dev2 == (m * current_loading - total) * (m * current_loading - total)
        confidence == anomaly_confidence(dev2, var)
    IN  IF var = 0 THEN << >>
        ELSE IF dev2 > 4 * var
        THEN << [ id |-> << "anomaly", ts >>,
                  severity |-> IF dev2 > 9 * var THEN "high" ELSE "medium",
                  reason |-> "Current loading deviates from baseline",
                  affected_lines |-> << "system-wide" >>,
                  timestamp |-> ts,
                  confidence |-> confidence,
                  recommended_actions |-> << >> ] >>
        ELSE << >>

detect_anomalies(hist, current_data, ts) ==
    IF Len(hist) < 5 THEN << >>
    ELSE
    LET earlier == SubSeq(hist, 1, Len(hist) - 1)
        historical_loadings == [i \in 1..Len(earlier) |-> avg_loading_of(earlier[i])]
        m == Len(historical_loadings)
        total == SumSeq(historical_loadings)
        \* m * m * variance; the baseline std is zero exactly when this is zero
        var == m * SumSeq([i \in 1..m |-> historical_loadings[i] * historical_loadings[i]])
                 - total * total
        current_loading == avg_loading_of(current_data)
        \* m * m * (current - mean)^2, so that z_score^2 = dev2 / var
        dev2 == (m * current_loading - total) * (m * current_loading - total)
        confidence == anomaly_confidence(dev2, var)
    IN  IF var = 0 THEN << >>
        ELSE IF dev2 > 4 * var
        THEN << [ id |-> << "anomaly", ts >>,
                  severity |-> IF dev2 > 9 * var THEN "high" ELSE "medium",
                  reason |-> "Current loading deviates from baseline",
                  affected_lines |-> << "system-wide" >>,
                  timestamp |-> ts,
                  confidence |-> confidence,
                  recommended_actions |->
                    << [ action |-> "Investigate cause of sudden loading change",
                         estimated_mva_change |-> 0,
                         estimated_pct_change |-> 0,
                         reasoning |-> "Unexpected changes may indicate equipment issues",
                         confidence |-> confidence ] >> ] >>
        ELSE << >>

\* the append with the trim keeping one entry too few
appended_history_short_trim(hist, thr, current_data, ts) ==
    LET h1 == Append(hist, [ timestamp |-> ts,
                             summary |-> Get(current_data, "summary", [none |-> 0]),
                             line_count |-> Len(Get(current_data, "lines", << >>)) ])
        window == Get(thr, "historical_window", 10)
    IN  IF Len(h1) > window THEN LastN(h1, window - 1) ELSE h1

\* a trim that keeps the first window entries, history[:window]
appended_history_keeping_oldest(hist, thr, current_data, ts) ==
    LET h1 == Append(hist, [ timestamp |-> ts,
                             summary |-> Get(current_data, "summary", [none |-> 0]),
                             line_count |-> Len(Get(current_data, "lines", << >>)) ])
        window == Get(thr, "historical_window", 10)
    IN  IF Len(h1) > window THEN FirstN(h1, window) ELSE h1

\* history after the append and the trim to the window
appended_history(hist, thr, current_data, ts) ==
    LET h1 == Append(hist, [ timestamp |-> ts,
                             summary |-> Get(current_data, "summary", [none |-> 0]),
                             line_count |-> Len(Get(current_data, "lines", << >>)) ])
        window == Get(thr, "historical_window", 10)
    IN  IF Len(h1) > window THEN LastN(h1, window) ELSE h1

\* the audit entries of one monitor call: every detector logs its issue,
\* except the high-loading branch, which has no _log_decision call
logged_issues(crit, high, trend, decline, anomaly) ==
    crit \o trend \o decline \o anomaly

audit_action(issue) ==
    CASE issue.id[1] = "critical_loading" -> "critical_overload_detected"
      [] issue.id[1] = "loading_trend" -> "loading_trend_detected"
      [] issue.id[1] = "rating_decline" -> "rating_decline_detected"
      [] issue.id[1] = "anomaly" -> "anomaly_detected"
      [] OTHER -> "high_overload_detected"

\* line['name'] of a line in the critical bucket raises KeyError
critical_raises(lines, thr) ==
    \E i \in 1..Len(lines) :
        is_critical_line(lines[i], thr) /\ "name" \notin DOMAIN lines[i]

\* line['name'] of a line in the high bucket raises KeyError
high_raises(lines, thr) ==
    \E i \in 1..Len(lines) :
        is_high_stress_line(lines[i], thr) /\ "name" \notin DOMAIN lines[i]

\* the exception leaves the call: nothing is returned
Raised(error) == [ raised |-> error ]

\* The detectors of one call, run over the history hist. No detector runs
\* inside a try block: the first one that raises ends the call, after the
\* append to history and after the audit entries of the detectors that ran
\* before it.
run_detectors(hist, current_data, ts) ==
    LET lines == Get(current_data, "lines", << >>)
        crit == critical_issue(lines, thresholds, ts)
        high == high_issue(lines, thresholds, ts)
        trend == detect_loading_trend(hist, thresholds, ts)
        decline == detect_rating_decline(hist, current_data, thresholds, ts)
        anomaly == detect_anomalies(hist, current_data, ts)
        detected_issues == crit \o high \o trend \o decline \o anomaly
        logged == logged_issues(crit, high, trend, decline, anomaly)
    IN  /\ IF critical_raises(lines, thresholds)
           THEN /\ decision_log' = decision_log
                /\ ret' = Raised("KeyError")
                /\ lastOp' = "monitor_raised"
           ELSE IF high_raises(lines, thresholds)
           THEN /\ decision_log' = decision_log \o
                      [i \in 1..Len(crit) |->
                          log_entry(ts, audit_action(crit[i]), crit[i],
                                    hist, action_history, thresholds)]
                /\ ret' = Raised("KeyError")
                /\ lastOp' = "monitor_raised"
           ELSE /\ decision_log' = decision_log \o
                      [i \in 1..Len(logged) |->
                          log_entry(ts, audit_action(logged[i]), logged[i],
                                    hist, action_history, thresholds)]
                /\ ret' = detected_issues
                /\ lastOp' = "monitor"
        /\ lastArgs' = current_data
        /\ nMonitor' = nMonitor + 1

\* a monitor that takes the snapshot out of history again when a detector
\* raises
monitor_grid_state_rolling_back(current_data) ==
    LET ts == clock
        hist == appended_history(history, thresholds, current_data, ts)
        lines == Get(current_data, "lines", << >>)
    IN  /\ history' = IF critical_raises(lines, thresholds) \/ high_raises(lines, thresholds)
                      THEN history
                      ELSE hist
        /\ run_detectors(hist, current_data, ts)
        /\ clock' = clock + 1
        /\ UNCHANGED << action_history, thresholds, version, last_updated, files, nLearn,
                        saving, observed,
                        inflight, logger >>

monitor_grid_state(current_data) ==
    LET ts == clock
        hist == appended_history(history, thresholds, current_data, ts)
    IN  /\ history' = hist
        /\ run_detectors(hist, current_data, ts)
        /\ clock' = clock + 1
        /\ UNCHANGED << action_history, thresholds, version, last_updated, files, nLearn,
                        saving, observed,
                        inflight, logger >>

(***************************************************************************)
(* GridMonitorAgent.predict_future_states                                  *)
(***************************************************************************)
\* Emissivity and Absorptivity are tenths
weather_params_of(forecast) ==
    [ Ta |-> Get(forecast, "Ta", 25),
      WindVelocity |-> Get(forecast, "WindVelocity", 2),
      WindAngleDeg |-> Get(forecast, "WindAngleDeg", 90),
      SunTime |-> Get(forecast, "SunTime", 12),
      Date |-> Get(forecast, "Date", "12 Jun"),
      Emissivity |-> Get(forecast, "Emissivity", 8),
      Absorptivity |-> Get(forecast, "Absorptivity", 8),
      Direction |-> Get(forecast, "Direction", "EastWest"),
      Atmosphere |-> Get(forecast, "Atmosphere", "Clear"),
      Elevation |-> Get(forecast, "Elevation", 1000),
      Latitude |-> Get(forecast, "Latitude", 27) ]

\* weather_forecast.index(forecast), 0-based: the first position holding an
\* equal element
forecast_index(weather_forecast, forecast) ==
    (CHOOSE j \in 1..Len(weather_forecast) :
        /\ weather_forecast[j] = forecast
        /\ \A k \in 1..(j - 1) : weather_forecast[k] # forecast) - 1

prediction_confidence(index) == Max(500, 1000 - index * 100)

\* the classification with strict comparisons
risk_level_strict(loading_pct, thr) ==
    IF loading_pct > thr.critical_loading THEN "high"
    ELSE IF loading_pct > thr.high_loading THEN "medium"
    ELSE "low"

risk_level(loading_pct, thr) ==
    IF loading_pct >= thr.critical_loading THEN "high"
    ELSE IF loading_pct >= thr.high_loading THEN "medium"
    ELSE "low"

\* the dict the loop over the returned lines builds: a later line of the
\* same name overwrites an earlier one
last_line_named(lines, n) ==
    lines[CHOOSE i \in 1..Len(lines) :
            /\ lines[i].name = n
            /\ \A k \in (i + 1)..Len(lines) : lines[k].name # n]

error_prediction(forecast, now, message) ==
    [ timestamp |-> Get(forecast, "timestamp", now),
      error |-> message,
      confidence |-> 0 ]

\* one pass of the loop body: outcome is what the rating engine does on this
\* call, [raises |-> TRUE, error |-> e] or [raises |-> FALSE, result |-> r]
predict_step(weather_forecast, pos, outcome, thr, now) ==
    LET forecast == weather_forecast[pos]
        lines == Get(outcome.result, "lines", << >>)
        names == { lines[i].name : i \in 1..Len(lines) }
    IN  IF outcome.raises
        THEN error_prediction(forecast, now, outcome.error)
        ELSE IF \E i \in 1..Len(lines) : "name" \notin DOMAIN lines[i]
        THEN error_prediction(forecast, now, "'name'")
        ELSE [ timestamp |-> Get(forecast, "timestamp", now),
               predicted_ratings |->
                   [n \in names |-> Get(last_line_named(lines, n), "rating_mva", 0)],
               risk_levels |->
                   [n \in names |->
                       risk_level(Get(last_line_named(lines, n), "loading_pct", 0), thr)],
               confidence |->
                   prediction_confidence(forecast_index(weather_forecast, forecast)),
               weather_conditions |-> weather_params_of(forecast) ]

\* a loop that stops at the first step on which the engine raises
predictions_of_aborting(weather_forecast, outcomes, thr, now) ==
    LET failing == { pos \in 1..Len(weather_forecast) : outcomes[pos].raises }
        stop == IF failing = {} THEN Len(weather_forecast)
                ELSE CHOOSE pos \in failing : \A q \in failing : pos <= q
    IN  [pos \in 1..stop |->
            predict_step(weather_forecast, pos, outcomes[pos], thr, now)]

predictions_of(weather_forecast, outcomes, thr, now) ==
    [pos \in 1..Len(weather_forecast) |->
        predict_step(weather_forecast, pos, outcomes[pos], thr, now)]

\* a count that takes every entry for a success
is_success_any_entry(prediction) == "timestamp" \in DOMAIN prediction

is_success(prediction) == "error" \notin DOMAIN prediction

predict_future_states(weather_forecast, outcomes) ==
    LET predictions == predictions_of(weather_forecast, outcomes, thresholds, clock)
    IN  /\ ret' = [ predictions |-> predictions,
                    model |-> "ieee738",
                    generated_at |-> clock ]
        /\ decision_log' = Append(decision_log,
              log_entry(clock, "predictions_generated",
                        [ forecast_count |-> Len(weather_forecast),
                          success_count |-> Len(SelectSeq(predictions, is_success)) ],
                        history, action_history, thresholds))
        /\ lastOp' = "predict"
        /\ lastArgs' = [ weather_forecast |-> weather_forecast, outcomes |-> outcomes ]
        /\ clock' = clock + 1
        /\ UNCHANGED << history, action_history, thresholds, version, last_updated,
                        files, nMonitor, nLearn,
                        saving, observed,
                        inflight, logger >>

(***************************************************************************)
(* GridMonitorAgent.generate_recommendations                               *)
(***************************************************************************)
\* a table that puts a severity it does not know first
severity_to_priority_unknown_first(severity) ==
    CASE severity = "critical" -> 1
      [] severity = "high" -> 2
      [] severity = "medium" -> 3
      [] severity = "low" -> 4
      [] OTHER -> 1

severity_to_priority(severity) ==
    CASE severity = "critical" -> 1
      [] severity = "high" -> 2
      [] severity = "medium" -> 3
      [] severity = "low" -> 4
      [] OTHER -> 4

recommendation_of(issue, action_dict, count) ==
    [ id |-> << issue.id, "action", count >>,
      priority |-> severity_to_priority(Get(issue, "severity", "low")),
      action |-> Get(action_dict, "action", "Review grid conditions"),
      estimated_impact |->
          [ mva |-> Get(action_dict, "estimated_mva_change", 0),
            loading_pct |-> Get(action_dict, "estimated_pct_change", 0) ],
      confidence |-> Get(action_dict, "confidence", 500),
      justification |-> Get(action_dict, "reasoning", Get(issue, "reason", "")) ]

\* the two nested loops: recommendations of the first n issues, in order
RECURSIVE flatten_issues(_, _)
flatten_issues(issues, n) ==
    IF n = 0 THEN << >>
    ELSE LET before == flatten_issues(issues, n - 1)
             issue == issues[n]
             actions == Get(issue, "recommended_actions", << >>)
         IN  before \o [k \in 1..Len(actions) |->
                          recommendation_of(issue, actions[k], Len(before) + k - 1)]

\* the key without the minus sign
sort_key_le_ascending_confidence(a, b) ==
    \/ a.priority < b.priority
    \/ a.priority = b.priority /\ a.confidence <= b.confidence

\* key=lambda r: (r['priority'], -r['confidence'])
sort_key_le(a, b) ==
    \/ a.priority < b.priority
    \/ a.priority = b.priority /\ (-a.confidence) <= (-b.confidence)

\* list.sort: stable, ascending by key
RECURSIVE sort_recommendations(_)
sort_recommendations(recs) ==
    IF Len(recs) <= 1 THEN recs
    ELSE LET x == recs[Len(recs)]
             front == sort_recommendations(SubSeq(recs, 1, Len(recs) - 1))
             keep == Cardinality({ i \in 1..Len(front) : sort_key_le(front[i], x) })
         IN  SubSeq(front, 1, keep) \o << x >> \o SubSeq(front, keep + 1, Len(front))

\* the limit applied before the sort
recommendations_of_truncating_first(issues, limit) ==
    sort_recommendations(FirstN(flatten_issues(issues, Len(issues)), limit))

recommendations_of(issues, limit) ==
    FirstN(sort_recommendations(flatten_issues(issues, Len(issues))), limit)

\* a recommend that writes no audit entry
generate_recommendations_unlogged(issues, scope, limit) ==
    /\ ret' = recommendations_of(issues, limit)
    /\ lastOp' = "recommend"
    /\ lastArgs' = [ issues |-> issues, scope |-> scope, limit |-> limit ]
    /\ clock' = clock + 1
    /\ UNCHANGED << history, action_history, thresholds, version, last_updated,
                    decision_log, files, nMonitor, nLearn, saving, observed,
                        inflight, logger >>

generate_recommendations(issues, scope, limit) ==
    LET recommendations == recommendations_of(issues, limit)
    IN  /\ ret' = recommendations
        /\ decision_log' = Append(decision_log,
              log_entry(clock, "recommendations_generated",
                        [ issue_count |-> Len(issues),
                          recommendation_count |-> Len(recommendations),
                          \* 0 stands for None
                          top_priority |-> IF recommendations # << >>
                                           THEN recommendations[1].priority
                                           ELSE 0 ],
                        history, action_history, thresholds))
        /\ lastOp' = "recommend"
        /\ lastArgs' = [ issues |-> issues, scope |-> scope, limit |-> limit ]
        /\ clock' = clock + 1
        /\ UNCHANGED << history, action_history, thresholds, version, last_updated,
                        files, nMonitor, nLearn,
                        saving, observed,
                        inflight, logger >>

(***************************************************************************)
(* GridMonitorAgent.learn_from_outcomes                                    *)
(***************************************************************************)
\* the append with the trim one entry late
appended_action_history_late_trim(acts, entry) ==
    LET a1 == Append(acts, entry)
    IN  IF Len(a1) > 101 THEN LastN(a1, 100) ELSE a1

\* a feedback log that records only the results the learning rule knows
appended_action_history_known_results(acts, entry) ==
    LET a1 == IF Get(entry.feedback, "result", "unknown") \in {"accepted", "rejected"}
              THEN Append(acts, entry)
              ELSE acts
    IN  IF Len(a1) > 100 THEN LastN(a1, 100) ELSE a1

\* the feedback log after the append and the trim
appended_action_history(acts, entry) ==
    LET a1 == Append(acts, entry)
    IN  IF Len(a1) > 100 THEN LastN(a1, 100) ELSE a1

\* the adjustment without its clamps
adjusted_high_loading_unclamped(h, operator_feedback) ==
    LET result == Get(operator_feedback, "result", "unknown")
    IN  IF result = "accepted"
        THEN IF Get(operator_feedback, "success", FALSE) THEN h ELSE h - 2
        ELSE IF result = "rejected" THEN h + 2
        ELSE h

\* the adjustment with the floor applied to rejections too
adjusted_high_loading_floor_only(h, operator_feedback) ==
    LET result == Get(operator_feedback, "result", "unknown")
    IN  IF result = "accepted"
        THEN IF Get(operator_feedback, "success", FALSE) THEN h ELSE Max(70, h - 2)
        ELSE IF result = "rejected" THEN Max(70, h + 2)
        ELSE h

\* an adjustment that is skipped when it would pass a bound, instead of
\* stopping on the bound
adjusted_high_loading_skipping_overshoot(h, operator_feedback) ==
    LET result == Get(operator_feedback, "result", "unknown")
    IN  IF result = "accepted"
        THEN IF Get(operator_feedback, "success", FALSE) \/ h - 2 < 70
             THEN h
             ELSE h - 2
        ELSE IF result = "rejected" /\ h + 2 <= 95
        THEN h + 2
        ELSE h

\* an adjustment that takes an acceptance without a success field for a
\* success
adjusted_high_loading_success_by_default(h, operator_feedback) ==
    LET result == Get(operator_feedback, "result", "unknown")
    IN  IF result = "accepted"
        THEN IF Get(operator_feedback, "success", TRUE)
             THEN h
             ELSE Max(70, h - 2)
        ELSE IF result = "rejected"
        THEN Min(95, h + 2)
        ELSE h

\* high_loading after the feedback is applied to the value h
adjusted_high_loading(h, operator_feedback) ==
    LET result == Get(operator_feedback, "result", "unknown")
    IN  IF result = "accepted"
        THEN IF Get(operator_feedback, "success", FALSE)
             THEN h
             ELSE Max(70, h - 2)
        ELSE IF result = "rejected"
        THEN Min(95, h + 2)
        ELSE h

\* a learn that writes its audit entry before it adjusts the threshold
learn_from_outcomes_logging_first(action_id, operator_feedback) ==
    LET feedback_entry == [ action_id |-> action_id,
                            timestamp |-> clock,
                            feedback |-> operator_feedback ]
        acts == appended_action_history(action_history, feedback_entry)
        thr == [thresholds EXCEPT
                  !.high_loading = adjusted_high_loading(@, operator_feedback)]
    IN  /\ action_history' = acts
        /\ thresholds' = thr
        /\ decision_log' = Append(decision_log,
              log_entry(clock, "feedback_received",
                        [ action_id |-> action_id,
                          result |-> Get(operator_feedback, "result", "unknown"),
                          updated_thresholds |-> thresholds ],
                        history, acts, thresholds))
        /\ ret' = "None"
        /\ lastOp' = "learn"
        /\ lastArgs' = [ action_id |-> action_id, operator_feedback |-> operator_feedback ]
        /\ clock' = clock + 1
        /\ nLearn' = nLearn + 1
        /\ UNCHANGED << history, version, last_updated, files, nMonitor, saving, observed,
                        inflight, logger >>

\* a learn that keeps critical_loading ten points above high_loading
learn_from_outcomes_moving_critical(action_id, operator_feedback) ==
    LET feedback_entry == [ action_id |-> action_id,
                            timestamp |-> clock,
                            feedback |-> operator_feedback ]
        acts == appended_action_history(action_history, feedback_entry)
        high == adjusted_high_loading(thresholds.high_loading, operator_feedback)
        thr == [thresholds EXCEPT !.high_loading = high,
                                  !.critical_loading = high + 10]
    IN  /\ action_history' = acts
        /\ thresholds' = thr
        /\ decision_log' = Append(decision_log,
              log_entry(clock, "feedback_received",
                        [ action_id |-> action_id,
                          result |-> Get(operator_feedback, "result", "unknown"),
                          updated_thresholds |-> thr ],
                        history, acts, thr))
        /\ ret' = "None"
        /\ lastOp' = "learn"
        /\ lastArgs' = [ action_id |-> action_id, operator_feedback |-> operator_feedback ]
        /\ clock' = clock + 1
        /\ nLearn' = nLearn + 1
        /\ UNCHANGED << history, version, last_updated, files, nMonitor,
                        saving, observed,
                        inflight, logger >>

learn_from_outcomes(action_id, operator_feedback) ==
    LET feedback_entry == [ action_id |-> action_id,
                            timestamp |-> clock,
                            feedback |-> operator_feedback ]
        acts == appended_action_history(action_history, feedback_entry)
        thr == [thresholds EXCEPT
                  !.high_loading = adjusted_high_loading(@, operator_feedback)]
    IN  /\ action_history' = acts
        /\ thresholds' = thr
        /\ decision_log' = Append(decision_log,
              log_entry(clock, "feedback_received",
                        [ action_id |-> action_id,
                          result |-> Get(operator_feedback, "result", "unknown"),
                          updated_thresholds |-> thr ],
                        history, acts, thr))
        /\ ret' = "None"
        /\ lastOp' = "learn"
        /\ lastArgs' = [ action_id |-> action_id, operator_feedback |-> operator_feedback ]
        /\ clock' = clock + 1
        /\ nLearn' = nLearn + 1
        /\ UNCHANGED << history, version, last_updated, files, nMonitor,
                        saving, observed,
                        inflight, logger >>

(***************************************************************************)
(* monitor_grid_state and learn_from_outcomes statement by statement, as   *)
(* two request threads run them on the one agent with no lock. A thread    *)
(* can be switched out between any two statements, and between the read    *)
(* and the write of thresholds['high_loading'].                            *)
(***************************************************************************)
\* thread t enters a call; overlapped records whether the other thread is
\* inside the same operation at that moment
call_entered(t, op, args) ==
    [ op |-> op, pc |-> "append", args |-> args, ts |-> clock,
      sliced |-> << >>, loaded |-> 0,
      overlapped |-> \E u \in Threads \ {t} : inflight[u].op = op,
      done |-> inflight[t].done ]

\* thread t has returned from its call
call_returned(t) ==
    [ op |-> "none", pc |-> "idle",
      done |-> Append(inflight[t].done,
                      [ op |-> inflight[t].op, ts |-> inflight[t].ts,
                        overlapped |-> inflight[t].overlapped ]) ]

\* timestamp = datetime.utcnow().isoformat()
monitor_enter(t, current_data) ==
    /\ inflight[t].op = "none"
    /\ inflight' = [inflight EXCEPT ![t] = call_entered(t, "monitor", current_data)]
    /\ clock' = clock + 1
    /\ UNCHANGED << history, action_history, thresholds, version, last_updated,
                    decision_log, files, lastOp, lastArgs, ret, nMonitor, nLearn,
                    saving, observed, logger >>

\* self.state.history.append({...})
monitor_append(t) ==
    /\ inflight[t].op = "monitor" /\ inflight[t].pc = "append"
    /\ history' = Append(history,
          [ timestamp |-> inflight[t].ts,
            summary |-> Get(inflight[t].args, "summary", [none |-> 0]),
            line_count |-> Len(Get(inflight[t].args, "lines", << >>)) ])
    /\ inflight' = [inflight EXCEPT ![t].pc = "check"]
    /\ UNCHANGED << action_history, thresholds, version, last_updated,
                    decision_log, files, clock, lastOp, lastArgs, ret, nMonitor,
                    nLearn, saving, observed, logger >>

\* if len(self.state.history) > window:
monitor_check(t) ==
    /\ inflight[t].op = "monitor" /\ inflight[t].pc = "check"
    /\ inflight' = [inflight EXCEPT ![t].pc =
          IF Len(history) > Get(thresholds, "historical_window", 10)
          THEN "slice" ELSE "detect"]
    /\ UNCHANGED << history, action_history, thresholds, version, last_updated,
                    decision_log, files, clock, lastOp, lastArgs, ret, nMonitor,
                    nLearn, saving, observed, logger >>

\* the right-hand side self.state.history[-window:]
monitor_slice(t) ==
    /\ inflight[t].op = "monitor" /\ inflight[t].pc = "slice"
    /\ inflight' = [inflight EXCEPT
          ![t].sliced = LastN(history, Get(thresholds, "historical_window", 10)),
          ![t].pc = "assign"]
    /\ UNCHANGED << history, action_history, thresholds, version, last_updated,
                    decision_log, files, clock, lastOp, lastArgs, ret, nMonitor,
                    nLearn, saving, observed, logger >>

\* self.state.history = <the slice>
monitor_assign(t) ==
    /\ inflight[t].op = "monitor" /\ inflight[t].pc = "assign"
    /\ history' = inflight[t].sliced
    /\ inflight' = [inflight EXCEPT ![t].pc = "detect"]
    /\ UNCHANGED << action_history, thresholds, version, last_updated,
                    decision_log, files, clock, lastOp, lastArgs, ret, nMonitor,
                    nLearn, saving, observed, logger >>

\* the detectors and the return
monitor_detect(t) ==
    /\ inflight[t].op = "monitor" /\ inflight[t].pc = "detect"
    /\ run_detectors(history, inflight[t].args, inflight[t].ts)
    /\ inflight' = [inflight EXCEPT ![t] = call_returned(t)]
    /\ UNCHANGED << history, action_history, thresholds, version, last_updated,
                    files, clock, nLearn, saving, observed, logger >>

\* feedback_entry = {..., 'timestamp': datetime.utcnow().isoformat(), ...}
learn_enter(t, action_id, operator_feedback) ==
    /\ inflight[t].op = "none"
    /\ inflight' = [inflight EXCEPT ![t] =
          call_entered(t, "learn", [ action_id |-> action_id,
                                operator_feedback |-> operator_feedback ])]
    /\ clock' = clock + 1
    /\ UNCHANGED << history, action_history, thresholds, version, last_updated,
                    decision_log, files, lastOp, lastArgs, ret, nMonitor, nLearn,
                    saving, observed, logger >>

\* self.state.action_history.append(feedback_entry)
learn_append(t) ==
    /\ inflight[t].op = "learn" /\ inflight[t].pc = "append"
    /\ action_history' = Append(action_history,
          [ action_id |-> inflight[t].args.action_id,
            timestamp |-> inflight[t].ts,
            feedback |-> inflight[t].args.operator_feedback ])
    /\ inflight' = [inflight EXCEPT ![t].pc = "check"]
    /\ UNCHANGED << history, thresholds, version, last_updated,
                    decision_log, files, clock, lastOp, lastArgs, ret, nMonitor,
                    nLearn, saving, observed, logger >>

\* if len(self.state.action_history) > 100:
learn_check(t) ==
    /\ inflight[t].op = "learn" /\ inflight[t].pc = "check"
    /\ inflight' = [inflight EXCEPT ![t].pc =
          IF Len(action_history) > 100 THEN "slice" ELSE "read"]
    /\ UNCHANGED << history, action_history, thresholds, version, last_updated,
                    decision_log, files, clock, lastOp, lastArgs, ret, nMonitor,
                    nLearn, saving, observed, logger >>

\* the right-hand side self.state.action_history[-100:]
learn_slice(t) ==
    /\ inflight[t].op = "learn" /\ inflight[t].pc = "slice"
    /\ inflight' = [inflight EXCEPT ![t].sliced = LastN(action_history, 100),
                                    ![t].pc = "assign"]
    /\ UNCHANGED << history, action_history, thresholds, version, last_updated,
                    decision_log, files, clock, lastOp, lastArgs, ret, nMonitor,
                    nLearn, saving, observed, logger >>

\* self.state.action_history = <the slice>
learn_assign(t) ==
    /\ inflight[t].op = "learn" /\ inflight[t].pc = "assign"
    /\ action_history' = inflight[t].sliced
    /\ inflight' = [inflight EXCEPT ![t].pc = "read"]
    /\ UNCHANGED << history, thresholds, version, last_updated,
                    decision_log, files, clock, lastOp, lastArgs, ret, nMonitor,
                    nLearn, saving, observed, logger >>

\* a read that takes the default instead of the current value
learn_read_default(t) ==
    /\ inflight[t].op = "learn" /\ inflight[t].pc = "read"
    /\ inflight' = [inflight EXCEPT
          ![t].loaded = DefaultThresholds.high_loading,
          ![t].pc = IF adjusted_high_loading(0, inflight[t].args.operator_feedback) # 0
                    THEN "write" ELSE "log"]
    /\ UNCHANGED << history, action_history, thresholds, version, last_updated,
                    decision_log, files, clock, lastOp, lastArgs, ret, nMonitor,
                    nLearn, saving, observed, logger >>

\* the branch on result and, in the two adjusting branches, the read of
\* self.state.thresholds['high_loading'] inside max(...) or min(...)
learn_read(t) ==
    /\ inflight[t].op = "learn" /\ inflight[t].pc = "read"
    /\ inflight' = [inflight EXCEPT
          ![t].loaded = thresholds.high_loading,
          ![t].pc = IF adjusted_high_loading(0, inflight[t].args.operator_feedback) # 0
                    THEN "write" ELSE "log"]
    /\ UNCHANGED << history, action_history, thresholds, version, last_updated,
                    decision_log, files, clock, lastOp, lastArgs, ret, nMonitor,
                    nLearn, saving, observed, logger >>

\* self.state.thresholds['high_loading'] = <max or min of the value read>
learn_write(t) ==
    /\ inflight[t].op = "learn" /\ inflight[t].pc = "write"
    /\ thresholds' = [thresholds EXCEPT !.high_loading =
          adjusted_high_loading(inflight[t].loaded, inflight[t].args.operator_feedback)]
    /\ inflight' = [inflight EXCEPT ![t].pc = "log"]
    /\ UNCHANGED << history, action_history, version, last_updated,
                    decision_log, files, clock, lastOp, lastArgs, ret, nMonitor,
                    nLearn, saving, observed, logger >>

\* self._log_decision('feedback_received', ...) and the return
learn_log(t) ==
    /\ inflight[t].op = "learn" /\ inflight[t].pc = "log"
    /\ decision_log' = Append(decision_log,
          log_entry(inflight[t].ts, "feedback_received",
                    [ action_id |-> inflight[t].args.action_id,
                      result |-> Get(inflight[t].args.operator_feedback,
                                     "result", "unknown"),
                      updated_thresholds |-> thresholds ],
                    history, action_history, thresholds))
    /\ ret' = "None"
    /\ lastOp' = "learn"
    /\ lastArgs' = inflight[t].args
    /\ nLearn' = nLearn + 1
    /\ inflight' = [inflight EXCEPT ![t] = call_returned(t)]
    /\ UNCHANGED << history, action_history, thresholds, version, last_updated,
                    files, clock, nMonitor, saving, observed, logger >>

(***************************************************************************)
(* GridMonitorAgent.heartbeat_loop                                         *)
(***************************************************************************)
heartbeat_status ==
    [ timestamp |-> clock,
      state_version |-> version,
      history_size |-> Len(history),
      action_history_size |-> Len(action_history),
      thresholds |-> thresholds ]

\* a heartbeat that also writes an audit entry
heartbeat_loop_logging ==
    /\ ret' = heartbeat_status
    /\ lastOp' = "heartbeat"
    /\ lastArgs' = "None"
    /\ decision_log' = Append(decision_log,
          log_entry(clock, "heartbeat", heartbeat_status, history, action_history, thresholds))
    /\ UNCHANGED << history, action_history, thresholds, version, last_updated,
                    files, clock, nMonitor, nLearn,
                        saving, observed,
                        inflight, logger >>

\* a heartbeat that opens the state file for writing, which empties it
heartbeat_loop_flushing ==
    /\ ret' = heartbeat_status
    /\ lastOp' = "heartbeat"
    /\ lastArgs' = "None"
    /\ files' = [files EXCEPT !.state = [ exists |-> TRUE, text |-> << >> ]]
    /\ UNCHANGED << history, action_history, thresholds, version, last_updated,
                    decision_log, clock, nMonitor, nLearn,
                        saving, observed,
                        inflight, logger >>

heartbeat_loop ==
    /\ ret' = heartbeat_status
    /\ lastOp' = "heartbeat"
    /\ lastArgs' = "None"
    /\ UNCHANGED << history, action_history, thresholds, version, last_updated,
                    decision_log, files, clock, nMonitor, nLearn,
                        saving, observed,
                        inflight, logger >>

(***************************************************************************)
(* AgentState.save and AgentState.load: the JSON document is a sequence of *)
(* tokens; json.dump writes it by the type of each value and json.load     *)
(* parses any well-formed token sequence back                              *)
(***************************************************************************)
Tok(t, v) == [t |-> t, v |-> v]

RECURSIVE SetToSeq(_)
SetToSeq(S) ==
    IF S = {} THEN << >>
    ELSE LET x == CHOOSE y \in S : TRUE IN << x >> \o SetToSeq(S \ {x})

RECURSIVE Concat(_)
Concat(ss) == IF ss = << >> THEN << >> ELSE Head(ss) \o Concat(Tail(ss))

dump_int(n) == << Tok("int", n) >>

dump_str(x) == << Tok("str", x) >>

dump_bool(b) == << Tok("bool", b) >>

\* a list from the texts of its items
dump_list(item_texts) ==
    << Tok("punct", "[") >> \o Concat(item_texts) \o << Tok("punct", "]") >>

\* a dict from the texts of its values, one per key
dump_dict(member_texts) ==
    LET keys == SetToSeq(DOMAIN member_texts)
    IN  << Tok("punct", "{") >>
        \o Concat([i \in 1..Len(keys) |->
                      << Tok("key", keys[i]) >> \o member_texts[keys[i]]])
        \o << Tok("punct", "}") >>

dump_numbers(d) == dump_dict([k \in DOMAIN d |-> dump_int(d[k])])

dump_feedback(fb) ==
    dump_dict([k \in DOMAIN fb |->
                  IF k = "success" THEN dump_bool(fb[k]) ELSE dump_str(fb[k])])

dump_history_entry(entry) ==
    dump_dict([k \in DOMAIN entry |->
                  IF k = "summary" THEN dump_numbers(entry[k]) ELSE dump_int(entry[k])])

dump_action_entry(entry) ==
    dump_dict([k \in DOMAIN entry |->
                  CASE k = "action_id" -> dump_str(entry[k])
                    [] k = "timestamp" -> dump_int(entry[k])
                    [] OTHER -> dump_feedback(entry[k])])

dump_state(state_dict) ==
    dump_dict([k \in DOMAIN state_dict |->
        CASE k = "history" ->
                 dump_list([i \in 1..Len(state_dict[k]) |->
                               dump_history_entry(state_dict[k][i])])
          [] k = "action_history" ->
                 dump_list([i \in 1..Len(state_dict[k]) |->
                               dump_action_entry(state_dict[k][i])])
          [] k = "thresholds" -> dump_numbers(state_dict[k])
          [] k = "version" -> dump_str(state_dict[k])
          [] OTHER -> dump_int(state_dict[k])])

\* json.dump(self.to_dict(), f)
json_dump(state_dict) == dump_state(state_dict)

ParseFail == [ok |-> FALSE, val |-> 0, rest |-> << >>, kind |-> "none"]

RECURSIVE parse_value(_), parse_members(_, _), parse_elements(_, _)
parse_value(toks) ==
    IF toks = << >> THEN ParseFail
    ELSE LET h == Head(toks)
         IN  IF h.t \in {"int", "str", "bool", "null"}
             THEN [ok |-> TRUE, val |-> h.v, rest |-> Tail(toks), kind |-> "scalar"]
             ELSE IF h.t = "punct" /\ h.v = "{"
             THEN parse_members(Tail(toks), << >>)
             ELSE IF h.t = "punct" /\ h.v = "["
             THEN parse_elements(Tail(toks), << >>)
             ELSE ParseFail

parse_members(toks, acc) ==
    IF toks = << >> THEN ParseFail
    ELSE LET h == Head(toks)
         IN  IF h.t = "punct" /\ h.v = "}"
             THEN [ok |-> TRUE, val |-> acc, rest |-> Tail(toks), kind |-> "dict"]
             ELSE IF h.t = "key"
             THEN LET r == parse_value(Tail(toks))
                  IN  IF r.ok
                      THEN parse_members(r.rest, (h.v :> r.val) @@ acc)
                      ELSE ParseFail
             ELSE ParseFail

parse_elements(toks, acc) ==
    IF toks = << >> THEN ParseFail
    ELSE LET h == Head(toks)
         IN  IF h.t = "punct" /\ h.v = "]"
             THEN [ok |-> TRUE, val |-> acc, rest |-> Tail(toks), kind |-> "list"]
             ELSE LET r == parse_value(toks)
                  IN  IF r.ok
                      THEN parse_elements(r.rest, Append(acc, r.val))
                      ELSE ParseFail

\* json.load(f): the whole text must be one value
json_load(toks) ==
    LET r == parse_value(toks)
    IN  IF r.ok /\ r.rest = << >> THEN r ELSE ParseFail

StateFields == {"history", "action_history", "thresholds", "version", "last_updated"}

\* AgentState(): every field at its default
new_state(now) ==
    [ history |-> << >>,
      action_history |-> << >>,
      thresholds |-> DefaultThresholds,
      version |-> DefaultVersion,
      last_updated |-> now ]

to_dict(hist, acts, thr, ver, updated) ==
    [ history |-> hist,
      action_history |-> acts,
      thresholds |-> thr,
      version |-> ver,
      last_updated |-> updated ]

\* a constructor that ignores the stored thresholds
from_dict_default_thresholds(data, now) ==
    [f \in StateFields |->
        IF f \in DOMAIN data /\ f # "thresholds" THEN data[f] ELSE new_state(now)[f]]

\* cls(**data): a missing field takes its default
from_dict(data, now) ==
    [f \in StateFields |-> IF f \in DOMAIN data THEN data[f] ELSE new_state(now)[f]]

Absent == [exists |-> FALSE, text |-> << >>]

File(text) == [exists |-> TRUE, text |-> text]

\* a loader that drops the fields it does not know
load_dropping_unknown_fields(fs, now) ==
    IF ~fs.state.exists THEN new_state(now)
    ELSE LET parsed == json_load(fs.state.text)
         IN  IF parsed.ok /\ parsed.kind = "dict"
             THEN from_dict(parsed.val, now)
             ELSE new_state(now)

\* AgentState.load(path) on the file system fs: cls(**data) raises on a
\* document that is not an object and on a field the class does not have,
\* and every exception ends in cls()
load(fs, now) ==
    IF ~fs.state.exists THEN new_state(now)
    ELSE LET parsed == json_load(fs.state.text)
         IN  IF /\ parsed.ok
                /\ parsed.kind = "dict"
                /\ DOMAIN parsed.val \subseteq StateFields
             THEN from_dict(parsed.val, now)
             ELSE new_state(now)

\* where a failing write may stop
PartialLengths(text) == {0, Len(text) \div 2, Len(text) - 1}

\* a save that writes the document straight into the state file
save_without_temp_file(outcome) ==
    LET text == json_dump(to_dict(history, action_history, thresholds, version, clock))
    IN  /\ outcome \in {"ok", "makedirs_fails", "open_fails", "write_fails", "replace_fails"}
        /\ last_updated' = IF outcome = "makedirs_fails" THEN last_updated ELSE clock
        /\ CASE outcome \in {"ok", "replace_fails"} ->
                  files' = [files EXCEPT !.state = File(text)]
             [] outcome = "write_fails" ->
                  \E k \in PartialLengths(text) :
                      files' = [files EXCEPT !.state = File(SubSeq(text, 1, k))]
             [] OTHER -> files' = files
        /\ ret' = IF outcome = "ok" THEN "None" ELSE "raised"
        /\ lastOp' = "save"
        /\ lastArgs' = outcome
        /\ clock' = clock + 1
        /\ UNCHANGED << history, action_history, thresholds, version,
                        decision_log, nMonitor, nLearn, saving, observed,
                        inflight, logger >>

\* AgentState.save(path); outcome says which step, if any, raises an I/O error
save(outcome) ==
    LET text == json_dump(to_dict(history, action_history, thresholds, version, clock))
    IN  /\ outcome \in {"ok", "makedirs_fails", "open_fails", "write_fails", "replace_fails"}
        /\ last_updated' = IF outcome = "makedirs_fails" THEN last_updated ELSE clock
        /\ CASE outcome = "ok" ->
                  files' = [state |-> File(text), tmp |-> Absent]
             [] outcome = "replace_fails" ->
                  files' = [files EXCEPT !.tmp = File(text)]
             [] outcome = "write_fails" ->
                  \E k \in PartialLengths(text) :
                      files' = [files EXCEPT !.tmp = File(SubSeq(text, 1, k))]
             [] OTHER -> files' = files
        /\ ret' = IF outcome = "ok" THEN "None" ELSE "raised"
        /\ lastOp' = "save"
        /\ lastArgs' = outcome
        /\ clock' = clock + 1
        /\ UNCHANGED << history, action_history, thresholds, version,
                        decision_log, nMonitor, nLearn,
                        saving, observed,
                        inflight, logger >>

\* no save call is in progress
NotSaving == [active |-> FALSE, text |-> << >>, written |-> 0]

\* no reader has read the state file
NothingRead == [seen |-> FALSE, file |-> Absent, during_save |-> FALSE]

\* AgentState.save up to the open of the temp file: makedirs, the new
\* last_updated, open(temp_path, 'w')
save_begin(outcome) ==
    /\ ~saving.active
    /\ outcome \in {"ok", "makedirs_fails", "open_fails"}
    /\ last_updated' = IF outcome = "makedirs_fails" THEN last_updated ELSE clock
    /\ IF outcome = "ok"
       THEN /\ files' = [files EXCEPT !.tmp = File(<< >>)]
            /\ saving' = [ active |-> TRUE,
                           text |-> json_dump(to_dict(history, action_history,
                                                      thresholds, version, clock)),
                           written |-> 0 ]
            /\ lastArgs' = "in progress"
            /\ ret' = "None"
       ELSE /\ files' = files
            /\ saving' = NotSaving
            /\ lastArgs' = outcome
            /\ ret' = "raised"
    /\ lastOp' = "save"
    /\ clock' = clock + 1
    /\ UNCHANGED << history, action_history, thresholds, version, decision_log,
                    nMonitor, nLearn, observed,
                        inflight, logger >>

\* a save that writes the document straight into the state file
save_write_in_place(raises) ==
    /\ saving.active
    /\ saving.written < Len(saving.text)
    /\ IF raises
       THEN /\ saving' = NotSaving
            /\ lastArgs' = "write_fails"
            /\ ret' = "raised"
            /\ files' = files
       ELSE /\ files' = [files EXCEPT
                            !.state = File(SubSeq(saving.text, 1, saving.written + 1))]
            /\ saving' = [saving EXCEPT !.written = @ + 1]
            /\ UNCHANGED << lastArgs, ret >>
    /\ UNCHANGED << history, action_history, thresholds, version, last_updated,
                    decision_log, clock, lastOp, nMonitor, nLearn, observed,
                        inflight, logger >>

\* json.dump writing the next piece of the document to the temp file, or
\* raising an I/O error and leaving the temp file as far as it got
save_write(raises) ==
    /\ saving.active
    /\ saving.written < Len(saving.text)
    /\ IF raises
       THEN /\ saving' = NotSaving
            /\ lastArgs' = "write_fails"
            /\ ret' = "raised"
            /\ files' = files
       ELSE /\ files' = [files EXCEPT
                            !.tmp = File(SubSeq(saving.text, 1, saving.written + 1))]
            /\ saving' = [saving EXCEPT !.written = @ + 1]
            /\ UNCHANGED << lastArgs, ret >>
    /\ UNCHANGED << history, action_history, thresholds, version, last_updated,
                    decision_log, clock, lastOp, nMonitor, nLearn, observed,
                        inflight, logger >>

\* os.replace(temp_path, path) once the document is written and closed
save_replace(raises) ==
    /\ saving.active
    /\ saving.written = Len(saving.text)
    /\ saving' = NotSaving
    /\ IF raises
       THEN /\ files' = files
            /\ lastArgs' = "replace_fails"
            /\ ret' = "raised"
       ELSE /\ files' = [state |-> files.tmp, tmp |-> Absent]
            /\ lastArgs' = "ok"
            /\ ret' = "None"
    /\ UNCHANGED << history, action_history, thresholds, version, last_updated,
                    decision_log, clock, lastOp, nMonitor, nLearn, observed,
                        inflight, logger >>

(***************************************************************************)
(* AgentState.save run by two request threads on the same path with no     *)
(* lock. Both use the one temp path path + '.tmp'. An open file follows    *)
(* its file, not its name: open(temp_path, 'w') empties the file another   *)
(* thread is still writing or has just closed, a write lands at the        *)
(* writer's own offset, and after os.replace the other thread's open file  *)
(* is the file at path.                                                    *)
(***************************************************************************)
\* the bytes a file has between its old end and a write past it
Hole == Tok("hole", "\\0")

\* the text of a file after a piece is written at an offset
written_at(text, offset, piece) ==
    [ i \in 1..Max(Len(text), offset + Len(piece)) |->
        IF offset < i /\ i <= offset + Len(piece) THEN piece[i - offset]
        ELSE IF i <= Len(text) THEN text[i]
        ELSE Hole ]

\* The buffered file passes the document on in pieces: one when its buffer
\* fills, the rest when the file is closed. This is where the next piece
\* written after `written` ends.
next_flush(text, written) ==
    IF written < Len(text) \div 2 THEN Len(text) \div 2 ELSE Len(text)

\* makedirs, the new last_updated, open(temp_path, 'w'), to_dict()
thread_save_begin(t) ==
    /\ inflight[t].op = "none"
    /\ last_updated' = clock
    /\ files' = [files EXCEPT !.tmp = File(<< >>)]
    /\ inflight' = [inflight EXCEPT ![t] =
          [ op |-> "save", pc |-> "write",
            text |-> json_dump(to_dict(history, action_history, thresholds,
                                       version, clock)),
            written |-> 0, target |-> "tmp", done |-> inflight[t].done ]]
    /\ clock' = clock + 1
    /\ UNCHANGED << history, action_history, thresholds, version, decision_log,
                    lastOp, lastArgs, ret, nMonitor, nLearn, saving, observed, logger >>

\* json.dump and the close of the file: the next piece of the document
\* goes through the open file
thread_save_write(t) ==
    /\ inflight[t].op = "save"
    /\ inflight[t].written < Len(inflight[t].text)
    /\ LET name == inflight[t].target
           upto == next_flush(inflight[t].text, inflight[t].written)
           piece == SubSeq(inflight[t].text, inflight[t].written + 1, upto)
       IN  /\ files' = IF name = "unlinked"
                       THEN files
                       ELSE [files EXCEPT ![name] =
                               File(written_at(files[name].text,
                                               inflight[t].written, piece))]
           /\ inflight' = [inflight EXCEPT ![t].written = upto]
    /\ UNCHANGED << history, action_history, thresholds, version, last_updated,
                    decision_log, clock, lastOp, lastArgs, ret, nMonitor, nLearn,
                    saving, observed, logger >>

\* the file is closed; os.replace(temp_path, path) moves whatever file has
\* the temp name, and raises FileNotFoundError when none has
thread_save_replace(t) ==
    /\ inflight[t].op = "save"
    /\ inflight[t].written = Len(inflight[t].text)
    /\ LET result == IF files.tmp.exists THEN "ok" ELSE "raised"
           moved(u) == IF inflight[u].op # "save" THEN inflight[u]
                       ELSE [inflight[u] EXCEPT !.target =
                               IF @ = "tmp" THEN "state" ELSE "unlinked"]
       IN  /\ files' = IF result = "ok"
                       THEN [state |-> files.tmp, tmp |-> Absent]
                       ELSE files
           /\ inflight' = [ u \in Threads |->
                 IF u = t
                 THEN [ op |-> "none", pc |-> "idle",
                        done |-> Append(inflight[t].done,
                                        [ op |-> "save", text |-> inflight[t].text,
                                          result |-> result ]) ]
                 ELSE IF result = "ok" THEN moved(u) ELSE inflight[u] ]
           /\ lastArgs' = result
           /\ ret' = IF result = "ok" THEN "None" ELSE "raised"
    /\ lastOp' = "save"
    /\ UNCHANGED << history, action_history, thresholds, version, last_updated,
                    decision_log, clock, nMonitor, nLearn, saving, observed, logger >>

\* another process reads the state file
read_state_file ==
    /\ observed' = [seen |-> TRUE, file |-> files.state, during_save |-> saving.active]
    /\ UNCHANGED << history, action_history, thresholds, version, last_updated,
                    decision_log, files, clock, lastOp, lastArgs, ret, nMonitor, nLearn,
                    saving,
                        inflight, logger >>

\* the service starting: the agent takes the state AgentState.load returns
restart ==
    LET state == load(files, clock)
    IN  /\ history' = state.history
        /\ action_history' = state.action_history
        /\ thresholds' = state.thresholds
        /\ version' = state.version
        /\ last_updated' = state.last_updated
        /\ lastOp' = "restart"
        /\ lastArgs' = "None"
        /\ ret' = "None"
        /\ saving' = NotSaving
        /\ UNCHANGED << decision_log, files, clock, nMonitor, nLearn, observed,
                        inflight, logger >>

\* GridMonitorAgent.__init__ with a new AgentState and a decision_log_path:
\* logging.getLogger('agent_decisions') is one logger for the process, and
\* the file handler is added only if the logger has none yet, so the first
\* agent's file stays the destination. decision_log is that file.
construct_agent(decision_log_path) ==
    LET state == new_state(clock)
    IN  /\ history' = state.history
        /\ action_history' = state.action_history
        /\ thresholds' = state.thresholds
        /\ version' = state.version
        /\ last_updated' = state.last_updated
        /\ logger' = [ handler |-> IF logger.handler = "none"
                                   THEN decision_log_path
                                   ELSE logger.handler,
                       configured |-> decision_log_path ]
        /\ lastOp' = "construct"
        /\ lastArgs' = [ decision_log_path |-> decision_log_path ]
        /\ ret' = "None"
        /\ UNCHANGED << decision_log, files, clock, nMonitor, nLearn, saving, observed,
                        inflight >>

\* something other than the agent writes the state file
external_write(text) ==
    /\ files' = [files EXCEPT !.state = File(text)]
    /\ lastOp' = "external_write"
    /\ lastArgs' = "None"
    /\ ret' = "None"
    /\ UNCHANGED << history, action_history, thresholds, version, last_updated,
                    decision_log, clock, nMonitor, nLearn, saving, observed,
                        inflight, logger >>

\* something other than the agent removes the state file
external_delete ==
    /\ files' = [files EXCEPT !.state = Absent]
    /\ lastOp' = "external_delete"
    /\ lastArgs' = "None"
    /\ ret' = "None"
    /\ UNCHANGED << history, action_history, thresholds, version, last_updated,
                    decision_log, clock, nMonitor, nLearn, saving, observed,
                        inflight, logger >>

load_state ==
    /\ ret' = load(files, clock)
    /\ lastOp' = "load"
    /\ lastArgs' = "None"
    /\ UNCHANGED << history, action_history, thresholds, version, last_updated,
                    decision_log, files, clock, nMonitor, nLearn,
                        saving, observed,
                        inflight, logger >>

(***************************************************************************)
(* Construction: AgentState() and GridMonitorAgent.__init__ with no state  *)
(* file and an empty decision log                                          *)
(***************************************************************************)
Init ==
    /\ history = << >>
    /\ action_history = << >>
    /\ thresholds = DefaultThresholds
    /\ version = DefaultVersion
    /\ last_updated = 0
    /\ decision_log = << >>
    /\ files = [state |-> Absent, tmp |-> Absent]
    /\ clock = 1
    /\ lastOp = "init"
    /\ lastArgs = "None"
    /\ ret = "None"
    /\ nMonitor = 0
    /\ nLearn = 0
    /\ saving = NotSaving
    /\ observed = NothingRead
    /\ inflight = [ t \in Threads |-> Idle ]
    /\ logger = [ handler |-> DefaultLogPath, configured |-> DefaultLogPath ]

(***************************************************************************)
(* Inputs                                                                  *)
(***************************************************************************)
LineCritical ==
    [name |-> "L1", loading_pct |-> 105, rating_mva |-> 100, flow_mva |-> 105, margin_mva |-> -5]

LineHigh ==
    [name |-> "L2", loading_pct |-> 92, rating_mva |-> 100, flow_mva |-> 92, margin_mva |-> 8]

LineNormal ==
    [name |-> "L3", loading_pct |-> 50, rating_mva |-> 100, flow_mva |-> 50, margin_mva |-> 50]

Snapshots ==
    { [lines |-> << LineCritical, LineHigh, LineNormal >>, summary |-> [avg_loading |-> 82]],
      [lines |-> << LineNormal >>, summary |-> [avg_loading |-> 50]] }

Feedbacks ==
    { [result |-> "accepted", success |-> TRUE],
      [result |-> "accepted", success |-> FALSE],
      [result |-> "accepted"],
      [result |-> "rejected"],
      [result |-> "deferred", success |-> TRUE],
      [notes |-> "no result"] }

ActionIds == {"rec_1"}

RatingOk == [raises |-> FALSE, result |-> [lines |-> << LineCritical, LineHigh, LineNormal >>]]

RatingRaises == [raises |-> TRUE, error |-> "engine failure"]

Forecasts ==
    { << [timestamp |-> 100, Ta |-> 30] >>,
      << [Ta |-> 30], [Ta |-> 30] >> }

Outcomes(weather_forecast) == [1..Len(weather_forecast) -> {RatingOk, RatingRaises}]

Limits == {1, 5}

SaveOutcomes == {"ok", "makedirs_fails", "open_fails", "write_fails", "replace_fails"}

(***************************************************************************)
(* Spec: every operation, freely interleaved                               *)
(***************************************************************************)
Monitor == clock <= MaxClock /\ \E data \in Snapshots : monitor_grid_state(data)

Next ==
    \/ Monitor
    \/ /\ clock <= MaxClock
       /\ \E id \in ActionIds, fb \in Feedbacks : learn_from_outcomes(id, fb)
    \/ /\ clock <= MaxClock
       /\ \E wf \in Forecasts : \E outcomes \in Outcomes(wf) :
             predict_future_states(wf, outcomes)
    \/ /\ clock <= MaxClock
       /\ lastOp = "monitor"
       /\ \E limit \in Limits : generate_recommendations(ret, "grid", limit)
    \/ ( heartbeat_loop )
    \/ ( clock <= MaxClock /\ \E outcome \in SaveOutcomes : save(outcome) )
    \/ ( load_state )

Spec == Init /\ [][Next]_vars

(***************************************************************************)
(* SpecSoak: a few freely chosen calls, then the same learn or monitor     *)
(* call repeated (an operator or a poller sending one request over and     *)
(* over), long enough to fill both ring buffers and to saturate the        *)
(* threshold                                                               *)
(***************************************************************************)
SoakSnapshot == [lines |-> << LineHigh >>, summary |-> [avg_loading |-> 60]]

SoakFeedbacks == Feedbacks

NextSoak ==
    \/ ( clock <= MaxFree /\ monitor_grid_state(SoakSnapshot) )
    \/ ( clock <= MaxFree /\ \E fb \in SoakFeedbacks : learn_from_outcomes("rec_1", fb) )
    \/ /\ clock <= MaxFree
       /\ predict_future_states(<< [Ta |-> 30], [Ta |-> 35] >>, << RatingOk, RatingRaises >>)
    \/ ( clock <= MaxFree /\ lastOp = "monitor" /\ generate_recommendations(ret, "grid", 5) )
    \/ ( clock <= MaxFree /\ heartbeat_loop )
    \/ /\ lastOp = "learn"
       /\ nLearn < MaxLearnCalls
       /\ learn_from_outcomes(lastArgs.action_id, lastArgs.operator_feedback)
    \/ /\ lastOp = "monitor"
       /\ nMonitor < MaxMonitorCalls
       /\ monitor_grid_state(lastArgs)

SpecSoak == Init /\ [][NextSoak]_vars

(***************************************************************************)
(* SpecMonitor: monitor calls over a varying average loading, deep enough  *)
(* for every detector, with recommend and predict in between               *)
(***************************************************************************)
LineAtCritical ==
    [ name |-> "L4", loading_pct |-> 100, rating_mva |-> 100,
      flow_mva |-> 100, margin_mva |-> 0 ]

TrendSnapshots ==
    { [lines |-> << LineNormal >>, summary |-> [avg_loading |-> 50]],
      [lines |-> << LineHigh, LineNormal >>, summary |-> [avg_loading |-> 60]],
      [lines |-> << LineCritical, LineAtCritical, LineHigh >>,
       summary |-> [avg_loading |-> 75]] }

NextMonitor ==
    \/ ( clock <= MaxMonitorDepth /\ \E data \in TrendSnapshots : monitor_grid_state(data) )
    \/ /\ clock <= MaxMonitorDepth
       /\ lastOp = "monitor"
       /\ ret # << >>
       /\ generate_recommendations(ret, "grid", 5)
    \/ /\ clock <= MaxMonitorDepth
       /\ lastOp = "monitor"
       /\ predict_future_states(<< [Ta |-> 30], [Ta |-> 35] >>, << RatingOk, RatingRaises >>)

SpecMonitor == Init /\ [][NextMonitor]_vars

(***************************************************************************)
(* SpecPredict: predict over every forecast of up to MaxForecast steps     *)
(* drawn from two weather steps (so steps repeat), the engine raising on   *)
(* any subset of the steps                                                 *)
(***************************************************************************)
ForecastSteps == { [timestamp |-> 100, Ta |-> 30], [Ta |-> 35] }

\* the rating engine, when it answers: hotter weather, higher loading
rate(forecast) ==
    IF Get(forecast, "Ta", 25) >= 35
    THEN [raises |-> FALSE, result |-> [lines |-> << LineCritical, LineHigh >>]]
    ELSE [raises |-> FALSE, result |-> [lines |-> << LineHigh, LineNormal >>]]

RECURSIVE SeqsUpTo(_, _)
SeqsUpTo(S, n) ==
    IF n = 0 THEN { << >> }
    ELSE LET shorter == SeqsUpTo(S, n - 1)
         IN  shorter \cup { Append(q, x) : q \in shorter, x \in S }

NextPredict ==
    \/ /\ clock <= 1
       /\ \E wf \in SeqsUpTo(ForecastSteps, MaxForecast) :
          \E failing \in SUBSET (1..Len(wf)) :
             predict_future_states(wf,
                 [i \in 1..Len(wf) |-> IF i \in failing THEN RatingRaises ELSE rate(wf[i])])

SpecPredict == Init /\ [][NextPredict]_vars

(***************************************************************************)
(* SpecRecommend: recommend over every list of up to MaxIssues issues of   *)
(* a catalogue, and several limits                                         *)
(***************************************************************************)
IssueCatalogue ==
    { [ id |-> << "critical_loading", 1 >>, severity |-> "critical", reason |-> "r1",
        confidence |-> 1000,
        recommended_actions |-> generate_actions_for_overload(<< LineCritical >>, TRUE) ],
      [ id |-> << "high_loading", 1 >>, severity |-> "high", reason |-> "r2",
        confidence |-> 1000,
        recommended_actions |-> generate_actions_for_overload(<< LineHigh >>, FALSE) ],
      [ id |-> << "loading_trend", 1 >>, severity |-> "medium", reason |-> "r3",
        confidence |-> 700,
        recommended_actions |-> << [action |-> "Review load forecast", confidence |-> 700] >> ],
      [ id |-> << "anomaly", 1 >>, severity |-> "medium", reason |-> "r4",
        confidence |-> 1000,
        recommended_actions |-> << [action |-> "Investigate", confidence |-> 1000] >> ],
      [ id |-> << "custom", 1 >>, severity |-> "urgent", reason |-> "r5",
        recommended_actions |-> << [estimated_mva_change |-> 0] >> ],
      [ id |-> << "empty", 1 >>, severity |-> "low" ],
      [ id |-> << "unlabelled", 1 >>, reason |-> "r7",
        recommended_actions |-> << [action |-> "Check", confidence |-> 600] >> ] }

RecommendLimits == {0, 1, 2, 5}

NextRecommend ==
    \/ /\ clock <= 1
       /\ \E issues \in SeqsUpTo(IssueCatalogue, MaxIssues), limit \in RecommendLimits :
             generate_recommendations(issues, "grid", limit)

SpecRecommend == Init /\ [][NextRecommend]_vars

(***************************************************************************)
(* SpecOverload: learn calls moving the threshold, with monitor and        *)
(* predict calls over lines whose loading sits on, just below and just     *)
(* above the thresholds the learn calls can reach                          *)
(***************************************************************************)
boundary_line(name, pct) ==
    [name |-> name, loading_pct |-> pct, rating_mva |-> 100, flow_mva |-> pct,
     margin_mva |-> 100 - pct]

LineNoLoading == [name |-> "B0", rating_mva |-> 100]

ScenarioA == [lines |-> << LineCritical >>, summary |-> [avg_loading |-> 105]]

AllBoundary ==
    [ lines |-> << boundary_line("B86", 86), boundary_line("B105", 105),
                   boundary_line("B88", 88), boundary_line("B100", 100),
                   boundary_line("B90", 90), boundary_line("B99", 99),
                   boundary_line("B92", 92), LineNoLoading >>,
      summary |-> [avg_loading |-> 82] ]

OverloadSnapshots ==
    { ScenarioA,
      AllBoundary,
      [lines |-> << boundary_line("B88", 88), boundary_line("B92", 92) >>,
       summary |-> [avg_loading |-> 90]],
      [lines |-> << LineNoLoading >>, summary |-> [avg_loading |-> 0]],
      [summary |-> [avg_loading |-> 50]] }

OverloadFeedbacks ==
    { [result |-> "rejected"], [result |-> "accepted", success |-> FALSE] }

NextOverload ==
    \/ /\ clock <= MaxOverloadClock
       /\ \E data \in OverloadSnapshots : monitor_grid_state(data)
    \/ /\ clock <= MaxOverloadClock
       /\ \E fb \in OverloadFeedbacks : learn_from_outcomes("rec_1", fb)
    \/ /\ clock <= MaxOverloadClock
       /\ \E data \in OverloadSnapshots :
             predict_future_states(<< [Ta |-> 30], [Ta |-> 35] >>,
                                   << [raises |-> FALSE, result |-> data], RatingRaises >>)

SpecOverload == Init /\ [][NextOverload]_vars

(***************************************************************************)
(* SpecSave: save taken step by step, with a reader of the state file      *)
(* running beside it; learn and monitor calls change the state between     *)
(* saves                                                                   *)
(***************************************************************************)
NextSave ==
    \/ /\ clock <= MaxSaveClock
       /\ ~saving.active
       /\ learn_from_outcomes("rec_1", [result |-> "rejected"])
    \/ /\ clock <= MaxSaveClock
       /\ ~saving.active
       /\ monitor_grid_state(SoakSnapshot)
    \/ /\ clock <= MaxSaveClock
       /\ \E outcome \in {"ok", "makedirs_fails", "open_fails"} : save_begin(outcome)
    \/ ( \E raises \in BOOLEAN : save_write(raises) )
    \/ ( \E raises \in BOOLEAN : save_replace(raises) )
    \/ ( read_state_file )

SpecSave == Init /\ [][NextSave]_vars

(***************************************************************************)
(* SpecLoad: the state file holds whatever was left there (a document the  *)
(* agent saved, one edited by hand, a truncated or foreign one); the agent *)
(* loads it, starts from it, learns and saves                              *)
(***************************************************************************)
document(high_loading) ==
    json_dump(to_dict(<< >>, << >>, [DefaultThresholds EXCEPT !.high_loading = high_loading],
                      DefaultVersion, 0))

\* documents load accepts: whole ones, and objects with some fields only
ValidTexts ==
    { document(90), document(60), document(120), document(71), document(94),
      dump_state([thresholds |-> [DefaultThresholds EXCEPT !.high_loading = 60]]),
      << Tok("punct", "{"), Tok("punct", "}") >> }

\* a document cut off anywhere, the empty file included
TruncatedTexts == { SubSeq(document(60), 1, k) : k \in 0..(Len(document(60)) - 1) }

\* text after the end of the document
TrailingTexts == { document(60) \o << Tok("punct", "}") >> }

UnknownFieldTexts ==
    { dump_state([bogus |-> 1]),
      dump_state([thresholds |-> [DefaultThresholds EXCEPT !.high_loading = 60],
                  bogus |-> 1]) }

\* well-formed JSON that is not an object
NotObjectTexts ==
    { << Tok("punct", "["), Tok("punct", "]") >>,
      << Tok("int", 5) >>,
      << Tok("str", "abc") >>,
      << Tok("null", "null") >> }

InvalidTexts == TruncatedTexts \cup TrailingTexts \cup UnknownFieldTexts \cup NotObjectTexts

NextLoad ==
    \/ /\ clock = 1
       /\ \E text \in ValidTexts \cup InvalidTexts : external_write(text)
    \/ ( clock = 1 /\ external_delete )
    \/ ( load_state )
    \/ ( restart )
    \/ /\ clock <= MaxLoadClock
       /\ \E fb \in OverloadFeedbacks : learn_from_outcomes("rec_1", fb)
    \/ ( clock <= MaxLoadClock /\ save("ok") )

SpecLoad == Init /\ [][NextLoad]_vars

(***************************************************************************)
(* SpecFaulty: monitor calls over snapshots some of whose overloaded lines  *)
(* carry no name, so that the overload detector raises.                     *)
(***************************************************************************)
LineNameless(pct) == [ loading_pct |-> pct ]

FaultySnapshots ==
    { [ lines |-> << LineNormal >>, summary |-> [ avg_loading |-> 50 ] ],
      [ lines |-> << LineCritical >>, summary |-> [ avg_loading |-> 75 ] ],
      [ lines |-> << LineNameless(105) >>, summary |-> [ avg_loading |-> 75 ] ],
      [ lines |-> << LineCritical, LineNameless(92) >>,
        summary |-> [ avg_loading |-> 75 ] ] }

NextFaulty ==
    \/ /\ clock <= MaxFaultyClock
       /\ \E snap \in FaultySnapshots : monitor_grid_state(snap)

SpecFaulty == Init /\ [][NextFaulty]_vars

(***************************************************************************)
(* SpecLoggers: agents constructed one after another in the same process,  *)
(* each with its own decision_log_path, and the calls made on the newest   *)
(***************************************************************************)
LogPaths == { DefaultLogPath, "tmp/test_decisions.log" }

NextLoggers ==
    \/ /\ clock <= MaxLoggerClock
       /\ lastOp # "construct"
       /\ \E path \in LogPaths : construct_agent(path)
    \/ ( clock <= MaxLoggerClock /\ \E data \in Snapshots : monitor_grid_state(data) )
    \/ /\ clock <= MaxLoggerClock
       /\ \E fb \in OverloadFeedbacks : learn_from_outcomes("rec_1", fb)

SpecLoggers == Init /\ [][NextLoggers]_vars

(***************************************************************************)
(* SpecRace: both ring buffers are filled by calls made one at a time;     *)
(* then two request threads each make one monitor call and one learn call  *)
(* on the one agent, switched between statements in every possible way.    *)
(***************************************************************************)
RaceFeedback == [result |-> "rejected"]

WarmedUp ==
    /\ Len(history) >= Get(thresholds, "historical_window", 10)
    /\ Len(action_history) >= 100

NextRace ==
    \/ /\ Len(history) < Get(thresholds, "historical_window", 10)
       /\ nLearn = 0
       /\ monitor_grid_state(SoakSnapshot)
    \/ /\ Len(history) = Get(thresholds, "historical_window", 10)
       /\ Len(action_history) < 100
       /\ learn_from_outcomes("rec_0", [notes |-> "no result"])
    \/ /\ WarmedUp
       /\ \E t \in Threads :
             Len(inflight[t].done) = 0 /\ monitor_enter(t, SoakSnapshot)
    \/ ( \E t \in Threads : monitor_append(t) )
    \/ ( \E t \in Threads : monitor_check(t) )
    \/ ( \E t \in Threads : monitor_slice(t) )
    \/ ( \E t \in Threads : monitor_assign(t) )
    \/ ( \E t \in Threads : monitor_detect(t) )
    \/ /\ WarmedUp
       /\ \E t \in Threads :
             Len(inflight[t].done) = 1 /\ learn_enter(t, "rec_1", RaceFeedback)
    \/ ( \E t \in Threads : learn_append(t) )
    \/ ( \E t \in Threads : learn_check(t) )
    \/ ( \E t \in Threads : learn_slice(t) )
    \/ ( \E t \in Threads : learn_assign(t) )
    \/ ( \E t \in Threads : learn_read(t) )
    \/ ( \E t \in Threads : learn_write(t) )
    \/ ( \E t \in Threads : learn_log(t) )

SpecRace == Init /\ [][NextRace]_vars

(***************************************************************************)
(* SpecSaveRace: two request threads each save the agent's state to the    *)
(* same path once, as agent_predict, agent_recommendations and             *)
(* agent_feedback do after their call; a learn call may change the state   *)
(* in between.                                                             *)
(***************************************************************************)
NextSaveRace ==
    \/ /\ nLearn < MaxSaveRaceLearns
       /\ learn_from_outcomes("rec_1", [result |-> "rejected"])
    \/ ( \E t \in Threads : Len(inflight[t].done) = 0 /\ thread_save_begin(t) )
    \/ ( \E t \in Threads : thread_save_write(t) )
    \/ ( \E t \in Threads : thread_save_replace(t) )

SpecSaveRace == Init /\ [][NextSaveRace]_vars

(***************************************************************************)
(* Properties                                                              *)
(***************************************************************************)

\* C1: from the default thresholds, high_loading stays within [70, 95] after
\* every learn call, whatever the feedback, with monitor, predict, recommend
\* and heartbeat calls interleaved.
C1_HighLoadingWithinBounds ==
    70 <= thresholds.high_loading /\ thresholds.high_loading <= 95

\* a learn call that had to clamp at the floor, after a monitor call
C1_Witness ==
    /\ lastOp = "learn"
    /\ thresholds.high_loading = 70
    /\ nLearn >= 12
    /\ nMonitor >= 1

\* C2: after N monitor calls from an empty history, with other operations
\* interleaved, len(history) = min(N, historical_window).
C2_HistoryLength ==
    Len(history) = Min(nMonitor, thresholds.historical_window)

\* more monitor calls than the window holds, and a learn call in between
C2_Witness ==
    /\ nMonitor > thresholds.historical_window
    /\ Len(history) = thresholds.historical_window
    /\ nLearn >= 1

\* C3: after every learn call, len(action_history) <= 100.
C3_ActionHistoryBounded == Len(action_history) <= 100

\* more than 100 learn calls were made and the log is full
C3_Witness == nLearn > 100 /\ Len(action_history) = 100

\* C4: a learn call leaves high_loading at h for accepted/success, at
\* max(70, h - 2) for accepted/unsuccessful, at min(95, h + 2) for rejected,
\* and at h for every other result.
C4_LearnAdjustsThreshold ==
    [][ lastOp' = "learn" /\ nLearn' = nLearn + 1 =>
          LET h == thresholds.high_loading
              after == thresholds'.high_loading
              fb == lastArgs'.operator_feedback
              result == IF "result" \in DOMAIN fb THEN fb.result ELSE "none"
              success == IF "success" \in DOMAIN fb
                         THEN (IF fb.success THEN "true" ELSE "false")
                         ELSE "absent"
          IN  /\ (result = "accepted" /\ success = "true") => after = h
              /\ (result = "accepted" /\ success = "false") =>
                     after = (IF h - 2 >= 70 THEN h - 2 ELSE 70)
              /\ result = "rejected" =>
                     after = (IF h + 2 <= 95 THEN h + 2 ELSE 95)
              /\ result \notin {"accepted", "rejected"} => after = h ]_vars

\* a rejection that had to clamp at the ceiling from 94
C4_Witness ==
    /\ lastOp = "learn"
    /\ lastArgs.operator_feedback = [result |-> "rejected"]
    /\ thresholds.high_loading = 95
    /\ nLearn = 3
    /\ decision_log[Len(decision_log) - 1].details.updated_thresholds.high_loading = 94

\* C5: a heartbeat call leaves history, action_history, thresholds and
\* version unchanged, appends nothing to the audit log, and reports the
\* sizes of both histories and the current thresholds.
C5_HeartbeatIsPure ==
    [][ lastOp' = "heartbeat" =>
          /\ history' = history
          /\ action_history' = action_history
          /\ thresholds' = thresholds
          /\ version' = version
          /\ decision_log' = decision_log
          /\ ret'.history_size = Len(history)
          /\ ret'.action_history_size = Len(action_history)
          /\ ret'.thresholds = thresholds ]_vars

\* a heartbeat on a state that monitor and learn have changed
C5_Witness ==
    /\ lastOp = "heartbeat"
    /\ ret.history_size >= 1
    /\ ret.action_history_size >= 1
    /\ ret.thresholds.high_loading # 90
    /\ decision_log # << >>

\* C6: the list recommend returns is sorted non-decreasing by priority and,
\* among equal priorities, non-increasing by confidence.
C6_RecommendSorted ==
    lastOp = "recommend" =>
        \A i, j \in 1..Len(ret) :
            i < j =>
                /\ ret[i].priority <= ret[j].priority
                /\ ret[i].priority = ret[j].priority =>
                       ret[i].confidence >= ret[j].confidence

\* a result the input order did not already give: the input starts with the
\* medium issue of confidence 0.7, whose recommendation ends up second,
\* behind an equal priority of higher confidence and before a lower priority
C6_Witness ==
    /\ lastOp = "recommend"
    /\ Len(ret) >= 3
    /\ ret[1].priority = ret[2].priority
    /\ ret[1].confidence > ret[2].confidence
    /\ ret[2].priority < ret[3].priority
    /\ lastArgs.issues[1].id = << "loading_trend", 1 >>
    /\ lastArgs.issues[1].severity = "medium"
    /\ lastArgs.issues[1].confidence = 700

\* C7: predict returns one entry per forecast step, in forecast order; the
\* entry of a step on which the engine raised carries an error and
\* confidence 0.0, every other entry is the prediction the same forecast
\* gives when no step fails.
C7_PartialFailureIsolation ==
    lastOp = "predict" =>
        LET wf == lastArgs.weather_forecast
            outcomes == lastArgs.outcomes
            predictions == ret.predictions
            unfailing == predictions_of(wf, [i \in 1..Len(wf) |-> rate(wf[i])],
                                        thresholds, ret.generated_at)
        IN  /\ Len(predictions) = Len(wf)
            /\ \A i \in 1..Len(wf) :
                  IF outcomes[i].raises
                  THEN /\ "error" \in DOMAIN predictions[i]
                       /\ predictions[i].confidence = 0
                       /\ predictions[i].timestamp =
                              Get(wf[i], "timestamp", ret.generated_at)
                  ELSE /\ "error" \notin DOMAIN predictions[i]
                       /\ "risk_levels" \in DOMAIN predictions[i]
                       /\ predictions[i] = unfailing[i]

\* Scenario E and more: the engine raises on the second step and on a later
\* one, and succeeds on the steps before, between and after
C7_Witness ==
    /\ lastOp = "predict"
    /\ Len(ret.predictions) = 5
    /\ lastArgs.outcomes[2].raises
    /\ lastArgs.outcomes[4].raises
    /\ ~lastArgs.outcomes[1].raises
    /\ ~lastArgs.outcomes[3].raises
    /\ ~lastArgs.outcomes[5].raises

\* C8: the confidence of the successful step at 0-based position i is
\* max(0.5, 1 - 0.1 * i), also when steps of the forecast are equal.
C8_ConfidenceByPosition ==
    lastOp = "predict" =>
        \A pos \in 1..Len(ret.predictions) :
            is_success(ret.predictions[pos]) =>
                ret.predictions[pos].confidence =
                    (IF 1000 - 100 * (pos - 1) >= 500 THEN 1000 - 100 * (pos - 1) ELSE 500)

\* C9: every Issue monitor returns, every Recommendation recommend returns
\* and every Prediction predict returns has a confidence within [0, 1].
C9_ConfidenceWithinUnitInterval ==
    /\ lastOp \in {"monitor", "recommend"} =>
          \A i \in 1..Len(ret) : 0 <= ret[i].confidence /\ ret[i].confidence <= 1000
    /\ lastOp = "predict" =>
          \A i \in 1..Len(ret.predictions) :
              /\ 0 <= ret.predictions[i].confidence
              /\ ret.predictions[i].confidence <= 1000

\* a monitor call whose trend detector had to cap the confidence (a slope
\* above twice the threshold)
C9_Witness ==
    /\ lastOp = "monitor"
    /\ \E i \in 1..Len(ret) :
          /\ ret[i].id[1] = "loading_trend"
          /\ ret[i].confidence = 1000
          /\ ret[i].recommended_actions[1].estimated_pct_change < -10

\* C10: load right after a successful save returns the history,
\* action_history, thresholds and version that were saved.
C10_SaveLoadRoundTrip ==
    [][ lastOp = "save" /\ lastArgs = "ok" /\ lastOp' = "load" =>
          /\ ret'.history = history
          /\ ret'.action_history = action_history
          /\ ret'.thresholds = thresholds
          /\ ret'.version = version ]_vars

\* a load after the save of a state that monitor and learn have changed
C10_Witness ==
    /\ lastOp = "load"
    /\ files.state.exists
    /\ Len(ret.history) >= 1
    /\ Len(ret.action_history) >= 1
    /\ ret.thresholds.high_loading # 90
    /\ ret.history = history
    /\ ret.action_history = action_history
    /\ ret.thresholds = thresholds

\* C11: the overload detector of monitor returns a critical issue exactly
\* when some line is at or above critical_loading, listing exactly those
\* lines, and a high issue exactly when some line is in
\* [high_loading, critical_loading), listing exactly those lines; both have
\* confidence 1.0 and no line is in both. One line at 105% on a fresh state
\* gives exactly one issue, critical, listing that line.
C11_OverloadDetector ==
    lastOp = "monitor" =>
        LET lines == Get(lastArgs, "lines", << >>)
            pct(i) == IF "loading_pct" \in DOMAIN lines[i] THEN lines[i].loading_pct ELSE 0
            crit == { i \in 1..Len(lines) : pct(i) >= thresholds.critical_loading }
            high == { i \in 1..Len(lines) :
                        /\ thresholds.high_loading <= pct(i)
                        /\ pct(i) < thresholds.critical_loading }
            critIssues == SelectSeq(ret, LAMBDA x : x.id[1] = "critical_loading")
            highIssues == SelectSeq(ret, LAMBDA x : x.id[1] = "high_loading")
            listed(issue) == { issue.affected_lines[k] : k \in 1..Len(issue.affected_lines) }
        IN  /\ Len(critIssues) = (IF crit = {} THEN 0 ELSE 1)
            /\ Len(highIssues) = (IF high = {} THEN 0 ELSE 1)
            /\ \A k \in 1..Len(ret) :
                  ret[k].severity = "critical" <=> ret[k].id[1] = "critical_loading"
            /\ crit # {} =>
                  /\ listed(critIssues[1]) = { lines[i].name : i \in crit }
                  /\ Len(critIssues[1].affected_lines) = Cardinality(crit)
                  /\ critIssues[1].confidence = 1000
            /\ high # {} =>
                  /\ listed(highIssues[1]) = { lines[i].name : i \in high }
                  /\ Len(highIssues[1].affected_lines) = Cardinality(high)
                  /\ highIssues[1].severity = "high"
                  /\ highIssues[1].confidence = 1000
            /\ (crit # {} /\ high # {}) =>
                  listed(critIssues[1]) \cap listed(highIssues[1]) = {}
            /\ (lastArgs = ScenarioA /\ nMonitor = 1) =>
                  /\ Len(ret) = 1
                  /\ ret[1].severity = "critical"
                  /\ ret[1].affected_lines = << "L1" >>
                  /\ ret[1].confidence = 1000

\* both buckets filled under a lowered threshold: the line at 88% is high,
\* the line at 86% is not, the line at exactly 100% is critical only
C11_Witness ==
    /\ lastOp = "monitor"
    /\ lastArgs = AllBoundary
    /\ thresholds.high_loading = 88
    /\ Len(ret) >= 2
    /\ ret[1].affected_lines = << "B105", "B100" >>
    /\ ret[2].affected_lines = << "B88", "B90", "B99", "B92" >>

\* C12: every issue a monitor call returns is also written to the decision
\* audit log during that call: the call appends as many audit entries as it
\* returns issues.
C12_EveryIssueLogged ==
    [][ lastOp' = "monitor" /\ nMonitor' = nMonitor + 1 =>
          /\ Len(decision_log') - Len(decision_log) = Len(ret')
          /\ \A k \in 1..Len(ret') :
                \E j \in (Len(decision_log) + 1)..Len(decision_log') :
                    decision_log'[j].details = ret'[k] ]_vars

\* C13: while a save is in progress, and after one failed midway, the state
\* file holds, and a concurrent reader reads, either the complete previous
\* document or the complete new one, never a partly written one: the file
\* changes only by the replace, which puts the whole new document in place.
C13_AtomicSave ==
    /\ [](/\ files.state.exists => json_load(files.state.text).ok
          /\ (observed.seen /\ observed.file.exists) =>
                 /\ json_load(observed.file.text).ok
                 /\ DOMAIN json_load(observed.file.text).val = StateFields)
    /\ [][ files'.state # files.state =>
             /\ saving.active
             /\ files'.state = File(saving.text)
             /\ json_load(saving.text).ok ]_vars

\* a reader reads the previous document while the temp file holds a part of
\* the new, different one
C13_Witness ==
    /\ saving.active
    /\ saving.written > 0
    /\ saving.written < Len(saving.text)
    /\ files.tmp = File(SubSeq(saving.text, 1, saving.written))
    /\ ~json_load(files.tmp.text).ok
    /\ observed.seen
    /\ observed.during_save
    /\ observed.file.exists
    /\ observed.file = files.state
    /\ observed.file.text # saving.text
    /\ json_load(observed.file.text).val.thresholds.high_loading # thresholds.high_loading

\* C14: load never raises; when no file exists, or the file cannot be parsed
\* into a state (malformed JSON, unknown fields), it returns a fresh state
\* with the default thresholds and empty history and action_history.
C14_LoadNeverRaises ==
    lastOp = "load" =>
        /\ DOMAIN ret = StateFields
        /\ (~files.state.exists \/ files.state.text \in InvalidTexts) =>
              /\ ret.history = << >>
              /\ ret.action_history = << >>
              /\ ret.thresholds = DefaultThresholds
              /\ ret.version = DefaultVersion

\* a load of a document cut off inside its thresholds, which held a
\* high_loading of 60
C14_Witness ==
    /\ lastOp = "load"
    /\ files.state.exists
    /\ files.state.text \in TruncatedTexts
    /\ \E k \in 1..Len(files.state.text) :
          files.state.text[k] = Tok("key", "high_loading")
    /\ \E k \in 1..Len(files.state.text) : files.state.text[k] = Tok("int", 60)
    /\ ret.thresholds = DefaultThresholds

\* C15: when save fails with an I/O error, the error reaches the caller and
\* the document at path is exactly what it was before the call.
C15_FailedSaveKeepsDocument ==
    [][ (lastOp' = "save" /\ clock' = clock + 1 /\ lastArgs' # "ok") =>
          /\ ret' = "raised"
          /\ files'.state = files.state ]_vars

\* a save that failed while writing, after an earlier save and a learn call:
\* the state file still holds the earlier document, the temp file a part of
\* the new one
C15_Witness ==
    /\ lastOp = "save"
    /\ lastArgs = "write_fails"
    /\ ret = "raised"
    /\ files.state.exists
    /\ json_load(files.state.text).ok
    /\ json_load(files.state.text).val.thresholds.high_loading # thresholds.high_loading
    /\ files.tmp.exists
    /\ Len(files.tmp.text) > 0
    /\ ~json_load(files.tmp.text).ok

\* C16: every learn call that writes high_loading leaves a value within
\* [70, 95], whatever value it held before the call, also a value outside
\* that range that came from a loaded state file.
C16_ClampedOnEveryWrite ==
    [][ (lastOp' = "learn" /\ nLearn' = nLearn + 1) =>
          LET fb == lastArgs'.operator_feedback
              result == IF "result" \in DOMAIN fb THEN fb.result ELSE "unknown"
              success == IF "success" \in DOMAIN fb THEN fb.success ELSE FALSE
              writes == \/ result = "rejected"
                        \/ result = "accepted" /\ ~success
          IN  writes => (70 <= thresholds'.high_loading /\ thresholds'.high_loading <= 95)
      ]_vars

\* C17: a threshold change is observed at once: every monitor call buckets
\* lines as high, and every predict call classifies medium risk, with the
\* high_loading the latest learn call left; the very next call after a
\* learn already uses the new value.
C17_ThresholdObservedImmediately ==
    [][ /\ (lastOp' = "monitor" /\ nMonitor' = nMonitor + 1) =>
             LET lines == Get(lastArgs', "lines", << >>)
                 pct(i) == IF "loading_pct" \in DOMAIN lines[i]
                           THEN lines[i].loading_pct ELSE 0
                 high == { i \in 1..Len(lines) :
                             /\ thresholds.high_loading <= pct(i)
                             /\ pct(i) < thresholds.critical_loading }
                 highIssues == SelectSeq(ret', LAMBDA x : x.id[1] = "high_loading")
             IN  IF high = {} THEN highIssues = << >>
                 ELSE /\ Len(highIssues) = 1
                      /\ { highIssues[1].affected_lines[k] :
                              k \in 1..Len(highIssues[1].affected_lines) }
                            = { lines[i].name : i \in high }
        /\ (lastOp' = "predict" /\ clock' = clock + 1) =>
             LET lines == Get(lastArgs'.outcomes[1].result, "lines", << >>)
                 pct(i) == IF "loading_pct" \in DOMAIN lines[i]
                           THEN lines[i].loading_pct ELSE 0
                 risks == ret'.predictions[1].risk_levels
             IN  \A i \in 1..Len(lines) :
                     risks[lines[i].name] = "medium" <=>
                         /\ thresholds.high_loading <= pct(i)
                         /\ pct(i) < thresholds.critical_loading
      ]_vars

\* the monitor call right after a learn call that lowered high_loading from
\* 90 to 88 lists the line at 88%, which the old value left out
C17_Witness ==
    /\ lastOp = "monitor"
    /\ thresholds.high_loading = 88
    /\ nLearn = 1
    /\ decision_log # << >>
    /\ decision_log[Len(decision_log)].action = "feedback_received"
    /\ decision_log[Len(decision_log)].timestamp = clock - 2
    /\ Len(ret) = 1
    /\ ret[1].id[1] = "high_loading"
    /\ ret[1].affected_lines = << "B88", "B92" >>

\* C18: for every successful forecast step and every line the engine
\* returns, predict assigns risk high iff loading_pct >= critical_loading,
\* medium iff high_loading <= loading_pct < critical_loading, low otherwise,
\* with the thresholds as they are when predict runs; every returned line
\* gets exactly one risk level.
C18_RiskClassification ==
    lastOp = "predict" =>
        \A step \in 1..Len(lastArgs.outcomes) :
            ~lastArgs.outcomes[step].raises =>
                LET lines == Get(lastArgs.outcomes[step].result, "lines", << >>)
                    pct(i) == IF "loading_pct" \in DOMAIN lines[i]
                              THEN lines[i].loading_pct ELSE 0
                    risks == ret.predictions[step].risk_levels
                IN  /\ DOMAIN risks = { lines[i].name : i \in 1..Len(lines) }
                    /\ \A i \in 1..Len(lines) :
                          /\ risks[lines[i].name] \in {"high", "medium", "low"}
                          /\ risks[lines[i].name] = "high" <=>
                                 pct(i) >= thresholds.critical_loading
                          /\ risks[lines[i].name] = "medium" <=>
                                 /\ thresholds.high_loading <= pct(i)
                                 /\ pct(i) < thresholds.critical_loading

\* a prediction under a raised threshold with lines on each side of both
\* thresholds and on them
C18_Witness ==
    /\ lastOp = "predict"
    /\ thresholds.high_loading = 92
    /\ lastArgs.outcomes[1].result = AllBoundary
    /\ ret.predictions[1].risk_levels =
          [ B86 |-> "low", B88 |-> "low", B90 |-> "low", B92 |-> "medium",
            B99 |-> "medium", B100 |-> "high", B105 |-> "high", B0 |-> "low" ]

\* C19: for every list of issues and every limit >= 0, recommend returns
\* exactly min(limit, number of recommended actions over all issues)
\* entries, the leading ones of the fully sorted list, so that no omitted
\* recommendation has a strictly smaller priority number than a returned one.
C19_TruncatesToLimit ==
    lastOp = "recommend" =>
        LET issues == lastArgs.issues
            limit == lastArgs.limit
            actions(k) == IF "recommended_actions" \in DOMAIN issues[k]
                          THEN issues[k].recommended_actions ELSE << >>
            total == SumSeq([k \in 1..Len(issues) |-> Len(actions(k))])
            every == flatten_issues(issues, Len(issues))
            sorted == sort_recommendations(every)
        IN  /\ Len(every) = total
            /\ Len(sorted) = total
            /\ \A k \in 1..total : \E j \in 1..total : sorted[j] = every[k]
            /\ Len(ret) = (IF limit <= total THEN limit ELSE total)
            /\ ret = SubSeq(sorted, 1, Len(ret))
            /\ \A i \in 1..Len(ret) : \A j \in (Len(ret) + 1)..total :
                  sorted[j].priority >= ret[i].priority

\* a limit of 2 over more recommendations, where the two returned are not
\* the first two of the input and one left out has a larger priority number
C19_Witness ==
    /\ lastOp = "recommend"
    /\ lastArgs.limit = 2
    /\ Len(ret) = 2
    /\ Len(flatten_issues(lastArgs.issues, Len(lastArgs.issues))) >= 4
    /\ ret # SubSeq(flatten_issues(lastArgs.issues, Len(lastArgs.issues)), 1, 2)
    /\ ret[1].priority = 1
    /\ \E r \in { flatten_issues(lastArgs.issues, Len(lastArgs.issues))[k] :
                     k \in 1..Len(flatten_issues(lastArgs.issues, Len(lastArgs.issues))) } :
          r.priority > ret[2].priority

\* C20: the priority of every recommendation is given by its parent issue's
\* severity alone, through critical -> 1, high -> 2, medium -> 3, low -> 4,
\* any other or missing severity -> 4; hence every priority is within 1..5.
C20_PriorityFromSeverity ==
    lastOp = "recommend" =>
        \A i \in 1..Len(ret) :
            /\ ret[i].priority \in 1..5
            /\ \E k \in 1..Len(lastArgs.issues) : lastArgs.issues[k].id = ret[i].id[1]
            /\ \A k \in 1..Len(lastArgs.issues) :
                  lastArgs.issues[k].id = ret[i].id[1] =>
                      LET issue == lastArgs.issues[k]
                      IN  ret[i].priority =
                            (IF "severity" \notin DOMAIN issue THEN 4
                             ELSE IF issue.severity = "critical" THEN 1
                             ELSE IF issue.severity = "high" THEN 2
                             ELSE IF issue.severity = "medium" THEN 3
                             ELSE 4)

\* recommendations of a critical issue, of one with a severity outside the
\* table and of one without a severity, in one result
C20_Witness ==
    /\ lastOp = "recommend"
    /\ Len(ret) = 4
    /\ ret[1].priority = 1
    /\ ret[3].priority = 4
    /\ ret[4].priority = 4
    /\ \E i, j \in 3..4 :
          /\ ret[i].id[1] = << "custom", 1 >>
          /\ ret[j].id[1] = << "unlabelled", 1 >>

\* C21: a recommend call leaves history, action_history and thresholds
\* unchanged and appends exactly one entry to the audit log.
C21_RecommendIsPure ==
    [][ (lastOp' = "recommend" /\ clock' = clock + 1) =>
          /\ history' = history
          /\ action_history' = action_history
          /\ thresholds' = thresholds
          /\ version' = version
          /\ Len(decision_log') = Len(decision_log) + 1
          /\ SubSeq(decision_log', 1, Len(decision_log)) = decision_log
          /\ decision_log'[Len(decision_log')].action = "recommendations_generated"
      ]_vars

\* a recommend over the issue of a monitor call, on a state with history,
\* feedback and a moved threshold
C21_Witness ==
    /\ lastOp = "recommend"
    /\ Len(ret) >= 1
    /\ Len(history) >= 1
    /\ Len(action_history) >= 1
    /\ thresholds.high_loading # 90
    /\ decision_log[Len(decision_log)].details.recommendation_count = Len(ret)

\* C22: every learn call, whatever its result, appends exactly one audit
\* entry holding the call's action_id, its result and the thresholds as they
\* are after the call's adjustment.
C22_LearnAuditEntry ==
    [][ (lastOp' = "learn" /\ nLearn' = nLearn + 1) =>
          LET fb == lastArgs'.operator_feedback
              entry == decision_log'[Len(decision_log')]
          IN  /\ Len(decision_log') = Len(decision_log) + 1
              /\ SubSeq(decision_log', 1, Len(decision_log)) = decision_log
              /\ entry.action = "feedback_received"
              /\ entry.details.action_id = lastArgs'.action_id
              /\ entry.details.result =
                    (IF "result" \in DOMAIN fb THEN fb.result ELSE "unknown")
              /\ entry.details.updated_thresholds = thresholds'
      ]_vars

\* the audit entry of a learn call that moved the threshold
C22_Witness ==
    /\ lastOp = "learn"
    /\ lastArgs.operator_feedback = [result |-> "accepted", success |-> FALSE]
    /\ nLearn >= 2
    /\ decision_log[Len(decision_log)].details.updated_thresholds.high_loading = 86
    /\ thresholds.high_loading = 86

\* C23: per-detector isolation: in every monitor call, also one in which a
\* detector raises, every Issue that the trend, rating-decline and anomaly
\* detectors emit for the call is returned by the call.
C23_DetectorIsolation ==
    [][ nMonitor' = nMonitor + 1 =>
          LET returned == IF lastOp' = "monitor" THEN ret' ELSE << >>
              others == detect_loading_trend(history', thresholds, clock)
                          \o detect_rating_decline(history', lastArgs', thresholds, clock)
                          \o detect_anomalies(history', lastArgs', clock)
          IN  \A k \in 1..Len(others) :
                  \E j \in 1..Len(returned) : returned[j] = others[k]
      ]_vars

\* C24 (amended): the overload detector emits one Issue for each non-empty
\* bucket, so zero, one or two, and the trend, rating-decline and anomaly
\* detectors emit zero or one each: a monitor call returns at most five
\* Issues.
C24_AtMostFiveIssues ==
    LET IssuesOfKind(kind) ==
            Cardinality({ i \in 1..Len(ret) : ret[i].id[1] = kind })
    IN  lastOp = "monitor" =>
            /\ Len(ret) <= 5
            /\ IssuesOfKind("critical_loading") <= 1
            /\ IssuesOfKind("high_loading") <= 1
            /\ IssuesOfKind("loading_trend") <= 1
            /\ IssuesOfKind("rating_decline") <= 1
            /\ IssuesOfKind("anomaly") <= 1

\* a monitor call whose overload detector emits two Issues and every other
\* detector one
C24_Witness ==
    /\ lastOp = "monitor"
    /\ Len(ret) = 5
    /\ ret[1].id[1] = "critical_loading"
    /\ ret[2].id[1] = "high_loading"

\* C24 as stated: a monitor call returns at most four Issues.
C24_AtMostFourIssues ==
    lastOp = "monitor" => Len(ret) <= 4

\* C25: starting from high_loading = 90, twenty consecutive 'rejected' learn
\* calls leave high_loading at exactly 95; at 95 a further 'rejected' call
\* leaves 95, and at 70 a further accepted-but-unsuccessful call leaves 70.
C25_Saturation ==
    /\ [] ( ( /\ nLearn = 20
              /\ Len(action_history) = 20
              /\ \A i \in 1..20 :
                     action_history[i].feedback = [result |-> "rejected"] )
            => thresholds.high_loading = 95 )
    /\ [][ (lastOp' = "learn" /\ nLearn' = nLearn + 1) =>
             LET fb == lastArgs'.operator_feedback
             IN  /\ ( thresholds.high_loading = 95 /\ fb = [result |-> "rejected"] )
                       => thresholds'.high_loading = 95
                 /\ ( /\ thresholds.high_loading = 70
                      /\ "result" \in DOMAIN fb /\ fb.result = "accepted"
                      /\ ~ Get(fb, "success", FALSE) )
                       => thresholds'.high_loading = 70
       ]_vars

\* the twentieth of twenty 'rejected' calls made on the default state
C25_Witness ==
    /\ lastOp = "learn"
    /\ nLearn = 20
    /\ Len(action_history) = 20
    /\ \A i \in 1..20 : action_history[i].feedback = [result |-> "rejected"]
    /\ thresholds.high_loading = 95

\* C26: on a fresh state, consecutive monitor calls whose snapshots all carry
\* the same avg_loading produce no trend Issue and no anomaly Issue in any
\* of the calls.
C26_ConstantLoadNoAlarm ==
    ( /\ lastOp = "monitor"
      /\ Len(history) = nMonitor
      /\ \A i \in 1..Len(history) :
             history[i].summary.avg_loading = history[1].summary.avg_loading )
    => \A j \in 1..Len(ret) : ret[j].id[1] \notin {"loading_trend", "anomaly"}

\* the fifth of five monitor calls with avg_loading = 50: both detectors
\* have enough history to run
C26_Witness ==
    /\ lastOp = "monitor"
    /\ nMonitor = 5
    /\ Len(history) = 5
    /\ \A i \in 1..5 : history[i].summary.avg_loading = 50
    /\ ret = << >>

\* C28: a predict call leaves history, action_history, thresholds and the
\* state version unchanged; its only side effect is exactly one audit entry,
\* whose forecast_count is the number of forecast steps and whose
\* success_count is the number of returned entries without an error.
C28_PredictOnlyLogs ==
    [][ (lastOp' = "predict" /\ clock' = clock + 1) =>
          LET entry == decision_log'[Len(decision_log')]
              predictions == ret'.predictions
          IN  /\ history' = history
              /\ action_history' = action_history
              /\ thresholds' = thresholds
              /\ version' = version
              /\ last_updated' = last_updated
              /\ Len(decision_log') = Len(decision_log) + 1
              /\ SubSeq(decision_log', 1, Len(decision_log)) = decision_log
              /\ entry.action = "predictions_generated"
              /\ entry.details.forecast_count = Len(lastArgs'.weather_forecast)
              /\ entry.details.success_count =
                    Cardinality({ i \in 1..Len(predictions) :
                                    "error" \notin DOMAIN predictions[i] })
      ]_vars

\* a two-step forecast whose second step fails, on a state with history,
\* feedback and a moved threshold
C28_Witness ==
    /\ lastOp = "predict"
    /\ Len(lastArgs.weather_forecast) = 2
    /\ lastArgs.outcomes[1] # RatingRaises
    /\ lastArgs.outcomes[2] = RatingRaises
    /\ decision_log[Len(decision_log)].details.forecast_count = 2
    /\ decision_log[Len(decision_log)].details.success_count = 1
    /\ Len(history) >= 1
    /\ Len(action_history) >= 1
    /\ thresholds.high_loading # 90

\* C29: every audit entry an agent produces is appended to the decision-log
\* destination configured for that agent, also when several agents with
\* different decision_log_path values are constructed one after another in
\* the same process.
C29_AuditGoesToConfiguredLog ==
    [][ Len(decision_log') > Len(decision_log) =>
          logger'.handler = logger'.configured ]_vars

\* C27: with no mutual exclusion, two monitor calls or two learn calls can
\* interleave so that an entry of history or of action_history, or an
\* adjustment of high_loading, is lost (C27_Witness is such an outcome);
\* calls that do not overlap lose nothing: after both threads have made
\* their calls, both entries are in each buffer and high_loading has moved
\* by both adjustments, unless two calls of the same operation overlapped.
C27_OnlyOverlappingCallsLose ==
    LET Overlapped(op) ==
            \E t \in Threads : \E i \in 1..Len(inflight[t].done) :
                inflight[t].done[i].op = op /\ inflight[t].done[i].overlapped
    IN  (\A t \in Threads : Len(inflight[t].done) = 2) =>
            /\ ~ Overlapped("monitor") =>
                  \A t \in Threads : \E i \in 1..Len(history) :
                      history[i].timestamp = inflight[t].done[1].ts
            /\ ~ Overlapped("learn") =>
                  /\ thresholds.high_loading = 94
                  /\ \A t \in Threads : \E i \in 1..Len(action_history) :
                         action_history[i].timestamp = inflight[t].done[2].ts

\* both threads have returned from both calls; one history entry, one
\* feedback entry and one of the two adjustments are missing
C27_Witness ==
    /\ \A t \in Threads : Len(inflight[t].done) = 2
    /\ thresholds.high_loading = 92
    /\ \E t \in Threads : \A i \in 1..Len(history) :
           history[i].timestamp # inflight[t].done[1].ts
    /\ \E t \in Threads : \A i \in 1..Len(action_history) :
           action_history[i].timestamp # inflight[t].done[2].ts

\* C30: when two save calls for the same path overlap, the file at path
\* holds at every moment one complete serialized state written by one of
\* the two calls, never a truncated or mixed document, and neither call
\* fails because of the other.
C30_OverlappingSavesKeepDocument ==
    /\ files.state.exists =>
          \E t \in Threads :
              \/ inflight[t].op = "save" /\ files.state.text = inflight[t].text
              \/ \E i \in 1..Len(inflight[t].done) :
                     files.state.text = inflight[t].done[i].text
    /\ \A t \in Threads : \A i \in 1..Len(inflight[t].done) :
          inflight[t].done[i].result = "ok"

\* C31: history is a FIFO ring: after N monitor calls from an empty history
\* it holds the entries of the most recent min(N, historical_window) calls
\* in call order, the current call's entry last; a call on a full ring
\* evicts the oldest entry and no other.
C31_HistoryIsFifoRing ==
    /\ [] ( /\ Len(history) = Min(nMonitor, thresholds.historical_window)
            /\ \A i \in 1..(Len(history) - 1) :
                   history[i].timestamp < history[i + 1].timestamp )
    /\ [][ (lastOp' = "monitor" /\ nMonitor' = nMonitor + 1) =>
             LET current == [ timestamp |-> clock,
                              summary |-> lastArgs'.summary,
                              line_count |-> Len(lastArgs'.lines) ]
             IN  history' = IF Len(history) < thresholds.historical_window
                            THEN history \o << current >>
                            ELSE Tail(history) \o << current >>
       ]_vars

\* the twelfth monitor call: the ring of ten holds the calls made at clock
\* 3 to 12, the two oldest are gone
C31_Witness ==
    /\ lastOp = "monitor"
    /\ nMonitor = 12
    /\ Len(history) = 10
    /\ history[10].timestamp = clock - 1
    /\ history[1].timestamp = clock - 10

\* C32: every learn call appends its feedback record, whatever the result
\* (accepted, rejected, unrecognized or missing): after N learn calls from
\* an empty action_history it holds the records of the most recent
\* min(N, 100) calls in call order, the current call's record last.
C32_ActionHistoryIsFifoRing ==
    /\ [] ( /\ Len(action_history) = Min(nLearn, 100)
            /\ \A i \in 1..(Len(action_history) - 1) :
                   action_history[i].timestamp < action_history[i + 1].timestamp )
    /\ [][ (lastOp' = "learn" /\ nLearn' = nLearn + 1) =>
             LET current == [ action_id |-> lastArgs'.action_id,
                              timestamp |-> clock,
                              feedback |-> lastArgs'.operator_feedback ]
             IN  action_history' = IF Len(action_history) < 100
                                   THEN action_history \o << current >>
                                   ELSE Tail(action_history) \o << current >>
       ]_vars

\* the 102nd learn call with a feedback that carries no result: the record
\* is the last of one hundred
C32_Witness ==
    /\ lastOp = "learn"
    /\ nLearn = 102
    /\ Len(action_history) = 100
    /\ action_history[100].feedback = [notes |-> "no result"]
    /\ action_history[100].timestamp = clock - 1
    /\ action_history[1].timestamp = clock - 100

\* C33: a monitor call returns a trend Issue iff, after the append, history
\* has at least 3 entries and the least-squares slope of the last
\* min(5, len(history)) avg_loading values against their positions is
\* strictly greater than trend_slope_threshold; the Issue is 'medium'. The
\* first two calls on a fresh state return none.
C33_TrendIssueIffSlopeAbove ==
    lastOp = "monitor" =>
        LET n == Min(5, Len(history))
            y == [ i \in 1..n |-> history[Len(history) - n + i].summary.avg_loading ]
            sx == SumSeq([ i \in 1..n |-> i - 1 ])
            \* n times the sums of (x - mean x) * y and of (x - mean x) * x
            sxy == SumSeq([ i \in 1..n |-> (n * (i - 1) - sx) * y[i] ])
            sxx == SumSeq([ i \in 1..n |-> (n * (i - 1) - sx) * (i - 1) ])
            trends == { j \in 1..Len(ret) : ret[j].id[1] = "loading_trend" }
        IN  /\ trends # {} <=>
                  ( Len(history) >= 3
                    /\ sxy > thresholds.trend_slope_threshold * sxx )
            /\ \A j \in trends : ret[j].severity = "medium"
            /\ nMonitor <= 2 => trends = {}

\* the sixth call: the five last values 50, 50, 60, 75, 75 rise by 7.5 a
\* call, and the first value, 75, is not part of the fit
C33_Witness ==
    /\ lastOp = "monitor"
    /\ Len(history) = 6
    /\ [ i \in 1..6 |-> history[i].summary.avg_loading ] = << 75, 50, 50, 60, 75, 75 >>
    /\ \E j \in 1..Len(ret) : ret[j].id[1] = "loading_trend"

\* C34: a monitor call returns a rating-decline Issue iff history has at
\* least 2 entries after the append and the current avg_loading less that
\* of the entry before it is strictly greater than
\* rating_decline_threshold; the Issue is 'medium'. The first call on a
\* fresh state returns none, and a fall of any size returns none.
C34_DeclineIssueIffRiseAbove ==
    lastOp = "monitor" =>
        LET current == lastArgs.summary.avg_loading
            declines == { j \in 1..Len(ret) : ret[j].id[1] = "rating_decline" }
        IN  /\ declines # {} <=>
                  ( Len(history) >= 2
                    /\ current - history[Len(history) - 1].summary.avg_loading
                          > thresholds.rating_decline_threshold )
            /\ \A j \in declines : ret[j].severity = "medium"
            /\ nMonitor = 1 => declines = {}
            /\ ( Len(history) >= 2
                 /\ current < history[Len(history) - 1].summary.avg_loading )
                  => declines = {}

\* a rise from 60 to 75 returns the Issue
C34_Witness ==
    /\ lastOp = "monitor"
    /\ Len(history) >= 2
    /\ history[Len(history) - 1].summary.avg_loading = 60
    /\ lastArgs.summary.avg_loading = 75
    /\ \E j \in 1..Len(ret) :
           ret[j].id[1] = "rating_decline" /\ ret[j].severity = "medium"

\* C35: a monitor call returns an anomaly Issue iff history has at least 5
\* entries after the append, the population standard deviation of
\* avg_loading over all entries but the current one is not zero, and
\* z = |current - mean| / std is strictly greater than 2; the Issue is
\* 'high' iff z > 3 and 'medium' otherwise. The first four calls on a fresh
\* state return none.
C35_AnomalyIssueIffZAboveTwo ==
    lastOp = "monitor" =>
        LET n == Len(history) - 1
            y == [ i \in 1..n |-> history[i].summary.avg_loading ]
            total == SumSeq(y)
            current == lastArgs.summary.avg_loading
            \* n * n * n * variance and n * n * (current - mean)^2
            q == SumSeq([ i \in 1..n |-> (n * y[i] - total) * (n * y[i] - total) ])
            d == (n * current - total) * (n * current - total)
            anomalies == { j \in 1..Len(ret) : ret[j].id[1] = "anomaly" }
        IN  /\ anomalies # {} <=>
                  ( Len(history) >= 5 /\ q # 0 /\ n * d > 4 * q )
            /\ \A j \in anomalies :
                  ret[j].severity = IF n * d > 9 * q THEN "high" ELSE "medium"
            /\ nMonitor <= 4 => anomalies = {}

\* the sixth call: after 75, 75, 75, 60, 60 the value 50 lies 2.6 standard
\* deviations from the mean, a 'medium' anomaly
C35_Witness ==
    /\ lastOp = "monitor"
    /\ [ i \in 1..Len(history) |-> history[i].summary.avg_loading ]
          = << 75, 75, 75, 60, 60, 50 >>
    /\ \E j \in 1..Len(ret) : ret[j].id[1] = "anomaly" /\ ret[j].severity = "medium"

\* C36: thresholds have a single writer: only learn changes high_loading,
\* no agent operation changes critical_loading, trend_slope_threshold,
\* rating_decline_threshold or historical_window; monitor, predict,
\* recommend and heartbeat leave every threshold unchanged, and learn
\* leaves history unchanged.
C36_SingleWriterForThresholds ==
    [][ /\ DOMAIN thresholds' = DOMAIN thresholds
        /\ thresholds'.high_loading # thresholds.high_loading => lastOp' = "learn"
        /\ \A k \in DOMAIN thresholds \ {"high_loading"} : thresholds'[k] = thresholds[k]
        /\ lastOp' \in {"monitor", "predict", "recommend", "heartbeat"}
              => thresholds' = thresholds
        /\ lastOp' = "learn" => history' = history
      ]_vars

\* a learn call that has moved high_loading on a state with a history
C36_Witness ==
    /\ lastOp = "learn"
    /\ thresholds.high_loading # DefaultThresholds.high_loading
    /\ thresholds = [DefaultThresholds EXCEPT !.high_loading = thresholds.high_loading]
    /\ Len(history) >= 1

\* C37: persistence is decoupled from mutation: monitor, predict,
\* recommend, learn and heartbeat leave the state file as it is, only a
\* successful save changes it, to the state of that moment; so what load
\* returns stays the state of the last successful save, whatever was
\* changed in memory since.
C37_OnlySaveChangesTheFile ==
    [][ LET saved == lastOp' = "save" /\ lastArgs' = "ok"
        IN  /\ lastOp' \in {"monitor", "predict", "recommend", "learn", "heartbeat"}
                  => files' = files
            /\ files'.state # files.state => saved
            /\ saved => load(files', clock') =
                            to_dict(history', action_history', thresholds', version',
                                    last_updated')
            /\ ~saved => load(files', clock') = load(files, clock')
      ]_vars

\* monitor, save, learn, load: the load returns the saved history and none
\* of the feedback that came after the save
C37_Witness ==
    /\ lastOp = "load"
    /\ files.state.exists
    /\ Len(ret.history) >= 1
    /\ ret.history = history
    /\ ret.action_history = << >>
    /\ Len(action_history) >= 1
    /\ ret.thresholds.high_loading # thresholds.high_loading

\* C38: a failed monitor call is not state-neutral: when a detector raises,
\* history already holds the snapshot of the call as its last entry, and
\* the audit entry written for the critical Issue before the raise stays
\* in the log, after all the entries that were there before the call.
C38_FailedMonitorKeepsItsEffects ==
    [][ lastOp' = "monitor_raised" =>
          LET lines == lastArgs'.lines
              named_critical == \E i \in 1..Len(lines) :
                                   is_critical_line(lines[i], thresholds)
              written == Len(decision_log') - Len(decision_log)
          IN  /\ ret' = Raised("KeyError")
              /\ history' # history
              /\ history'[Len(history')] =
                     [ timestamp |-> clock,
                       summary |-> lastArgs'.summary,
                       line_count |-> Len(lines) ]
              /\ written >= 0
              /\ SubSeq(decision_log', 1, Len(decision_log)) = decision_log
              /\ ( named_critical /\ ~critical_raises(lines, thresholds) )
                    => /\ written = 1
                       /\ decision_log'[Len(decision_log')].action
                             = "critical_overload_detected"
                       /\ decision_log'[Len(decision_log')].timestamp = clock
      ]_vars

\* the call raised in the high bucket, after the critical Issue was logged
C38_Witness ==
    /\ lastOp = "monitor_raised"
    /\ Len(history) >= 2
    /\ history[Len(history)].timestamp = clock - 1
    /\ Len(decision_log) >= 1
    /\ decision_log[Len(decision_log)].action = "critical_overload_detected"
    /\ decision_log[Len(decision_log)].timestamp = clock - 1

\* C39: a learn call whose feedback has result 'accepted' and no success
\* field lowers high_loading to max(70, high_loading - 2), exactly as the
\* same call with success false does.
C39_AcceptedWithoutSuccessLowers ==
    [][ ( lastOp' = "learn" /\ lastArgs'.operator_feedback = [ result |-> "accepted" ] ) =>
          /\ thresholds'.high_loading = Max(70, thresholds.high_loading - 2)
          /\ thresholds'.high_loading =
                adjusted_high_loading(thresholds.high_loading,
                                      [ result |-> "accepted", success |-> FALSE ])
      ]_vars

\* such a call after another one: 90, 88, 86
C39_Witness ==
    /\ lastOp = "learn"
    /\ lastArgs.operator_feedback = [ result |-> "accepted" ]
    /\ nLearn = 2
    /\ thresholds.high_loading = 86

====
